---- MODULE Spec2Model ----
(***************************************************************************)
(* Model of the configuration merge engine of mkapidocs                     *)
(* (packages/mkapidocs/yaml_utils.py and its caller in generator.py), of    *)
(* update_ruff_config, of the build / serve dispatch of builder.py, of the  *)
(* setup steps that create files, of update_gitignore, and of the older     *)
(* dict-rebuilding merge of cli.py.                                         *)
(*                                                                          *)
(* A YAML value is a record [t, s, sty, ks, vs]:                            *)
(*   t   : "null" | "str" | "tag" | "seq" | "map"                           *)
(*   s   : the text of a string scalar, or the callable of a                *)
(*         !!python/name:<callable> scalar                                  *)
(*   sty : scalar style kept by the round-trip loader                       *)
(*         ("plain" | "dq" | "literal"), "" for the other nodes             *)
(*   ks  : the keys of a mapping, in document order; a key is a tuple of    *)
(*         characters, so that key paths are real strings                   *)
(*   vs  : the values of a mapping (vs[i] belongs to ks[i]) or the items    *)
(*         of a sequence                                                    *)
(* A text is a tuple of parser events; the loaders and the dumper are the   *)
(* two directions between texts and values.                                 *)
(***************************************************************************)
EXTENDS Integers, Sequences, FiniteSets, TLC

VARIABLES
    file,   \* mkdocs.yml on disk: [exists, ev]
    tmpl,   \* the rendered template content handed to create_mkdocs_config
    log,    \* one record per create_mkdocs_config run, oldest first
    ci,     \* .gitlab-ci.yml on disk: [exists, ev]
    ciLog,  \* one record per append_to_yaml_list call, oldest first
    call,   \* a direct call of _merge_yaml_in_place and of _merge_yaml_configs
            \* with the same arguments: the arguments and the two results
    layout, \* one load/serialize pass over a document's text lines
    loads,  \* one record per load of .gitlab-ci.yml by one of the loaders
    pyproject, \* pyproject.toml as update_ruff_config sees it
    proc,   \* one build_docs / serve_docs invocation and its child processes
    repo,   \* the files the setup steps create: .gitlab-ci.yml, the pages
            \* workflow, docs/index.md, docs/install.md, and a log of steps
    gitignore \* .gitignore on disk and a log of update_gitignore calls

vars == <<file, tmpl, log, ci, ciLog, call, layout, loads, pyproject, proc, repo,
          gitignore>>

(***************************************************************************)
(* Bounds of the model and constants of the program.                        *)
(***************************************************************************)
MaxRuns == 2

MaxAppends == 2

\* The largest max_depth argument of a direct _merge_yaml_in_place call.
MaxDepthArg == 2

DefaultMaxDepth == 50

(***************************************************************************)
(* Keys and key paths, as tuples of characters.                             *)
(***************************************************************************)
K_theme == <<"t", "h", "e", "m", "e">>
K_name == <<"n", "a", "m", "e">>
K_palette == <<"p", "a", "l", "e", "t", "t", "e">>
K_features == <<"f", "e", "a", "t", "u", "r", "e", "s">>
K_site_url == <<"s", "i", "t", "e", "_", "u", "r", "l">>
K_repo_url == <<"r", "e", "p", "o", "_", "u", "r", "l">>
K_markdown_extensions == <<"m", "a", "r", "k", "d", "o", "w", "n", "_", "e", "x", "t", "e", "n", "s", "i", "o", "n", "s">>
K_extra == <<"e", "x", "t", "r", "a">>
K_x == <<"x">>
K_include == <<"i", "n", "c", "l", "u", "d", "e">>
K_stages == <<"s", "t", "a", "g", "e", "s">>
K_local == <<"l", "o", "c", "a", "l">>

P_gen_files_scripts == <<"p", "l", "u", "g", "i", "n", "s", ".", "g", "e", "n", "-", "f", "i", "l", "e", "s", ".", "s", "c", "r", "i", "p", "t", "s">>
P_search == <<"p", "l", "u", "g", "i", "n", "s", ".", "s", "e", "a", "r", "c", "h">>
P_mkdocstrings == <<"p", "l", "u", "g", "i", "n", "s", ".", "m", "k", "d", "o", "c", "s", "t", "r", "i", "n", "g", "s">>
P_mermaid2 == <<"p", "l", "u", "g", "i", "n", "s", ".", "m", "e", "r", "m", "a", "i", "d", "2">>
P_termynal == <<"p", "l", "u", "g", "i", "n", "s", ".", "t", "e", "r", "m", "y", "n", "a", "l">>
P_literate_nav == <<"p", "l", "u", "g", "i", "n", "s", ".", "l", "i", "t", "e", "r", "a", "t", "e", "-", "n", "a", "v">>
P_theme_name == <<"t", "h", "e", "m", "e", ".", "n", "a", "m", "e">>
P_theme_palette == <<"t", "h", "e", "m", "e", ".", "p", "a", "l", "e", "t", "t", "e">>

(***************************************************************************)
(* Values.                                                                  *)
(***************************************************************************)
Null == [t |-> "null", s |-> "", sty |-> "", ks |-> <<>>, vs |-> <<>>]

Str(x) == [t |-> "str", s |-> x, sty |-> "plain", ks |-> <<>>, vs |-> <<>>]

StrStyled(x, style) == [t |-> "str", s |-> x, sty |-> style, ks |-> <<>>, vs |-> <<>>]

PyTag(callable) == [t |-> "tag", s |-> callable, sty |-> "", ks |-> <<>>, vs |-> <<>>]

SeqNode(items) == [t |-> "seq", s |-> "", sty |-> "", ks |-> <<>>, vs |-> items]

MapNode(keys, values) == [t |-> "map", s |-> "", sty |-> "", ks |-> keys, vs |-> values]

EmptyMap == MapNode(<<>>, <<>>)

IsMap(n) == n.t = "map"

IsSeq(n) == n.t = "seq"

\* Strings of the model that hold a line break.
MultiLine == {"line1\nline2"}

HasNewline(x) == x \in MultiLine

HasKey(m, k) == \E i \in DOMAIN m.ks : m.ks[i] = k

KeyIndex(m, k) == CHOOSE i \in DOMAIN m.ks : m.ks[i] = k

\* dict.get(key): None for a missing key and for a key holding null alike.
MapGet(m, k) == IF HasKey(m, k) THEN m.vs[KeyIndex(m, k)] ELSE Null

\* Mutant: a new key is put in front of the keys the mapping has.
MapSetInFront(m, k, v) ==
    IF HasKey(m, k)
    THEN MapNode(m.ks, [m.vs EXCEPT ![KeyIndex(m, k)] = v])
    ELSE MapNode(<<k>> \o m.ks, <<v>> \o m.vs)

\* dict[key] = value: in place for a key the mapping has, appended otherwise.
MapSet(m, k, v) ==
    IF HasKey(m, k)
    THEN MapNode(m.ks, [m.vs EXCEPT ![KeyIndex(m, k)] = v])
    ELSE MapNode(Append(m.ks, k), Append(m.vs, v))

RECURSIVE PyEq(_, _)
\* Python's == on loaded values: scalar styles do not count, mappings compare
\* as dicts (key order does not count), sequences item by item.
PyEq(a, b) ==
    /\ a.t = b.t
    /\ CASE a.t = "null" -> TRUE
         [] a.t = "str" -> a.s = b.s
         [] a.t = "tag" -> a.s = b.s
         [] a.t = "seq" -> /\ Len(a.vs) = Len(b.vs)
                           /\ \A i \in DOMAIN a.vs : PyEq(a.vs[i], b.vs[i])
         [] OTHER -> /\ Len(a.ks) = Len(b.ks)
                     /\ \A i \in DOMAIN a.ks :
                            /\ HasKey(b, a.ks[i])
                            /\ PyEq(a.vs[i], MapGet(b, a.ks[i]))

\* bool(value), as in `if template_yaml.get("site_url")`.
Truthy(n) ==
    CASE n.t = "null" -> FALSE
      [] n.t = "str" -> n.s # ""
      [] n.t = "tag" -> TRUE
      [] OTHER -> Len(n.vs) > 0

(***************************************************************************)
(* str(value), as written into the change records.                          *)
(***************************************************************************)
RECURSIVE CharsToStr(_)
CharsToStr(cs) == IF cs = <<>> THEN "" ELSE Head(cs) \o CharsToStr(Tail(cs))

RECURSIVE PyRepr(_)
RECURSIVE ReprItems(_, _)
RECURSIVE ReprPairs(_, _)
ReprItems(n, i) ==
    IF i > Len(n.vs) THEN ""
    ELSE (IF i > 1 THEN ", " ELSE "") \o PyRepr(n.vs[i]) \o ReprItems(n, i + 1)

ReprPairs(n, i) ==
    IF i > Len(n.ks) THEN ""
    ELSE (IF i > 1 THEN ", " ELSE "") \o "'" \o CharsToStr(n.ks[i]) \o "': "
         \o PyRepr(n.vs[i]) \o ReprPairs(n, i + 1)

PyRepr(n) ==
    CASE n.t = "null" -> "None"
      [] n.t = "str" -> "'" \o n.s \o "'"
      [] n.t = "tag" -> "TaggedScalar"
      [] n.t = "seq" -> "[" \o ReprItems(n, 1) \o "]"
      [] OTHER -> "{" \o ReprPairs(n, 1) \o "}"

PyStr(n) == IF n.t = "str" THEN n.s ELSE PyRepr(n)

(***************************************************************************)
(* FileChange records. old_value / new_value are `str | None`.              *)
(***************************************************************************)
NoneStr == [none |-> TRUE, s |-> ""]

SomeStr(x) == [none |-> FALSE, s |-> x]

FileChange(path, act, old, new) ==
    [key_path |-> path, action |-> act, old_value |-> old, new_value |-> new]

(***************************************************************************)
(* Texts: tuples of events.                                                 *)
(*   e = "ms"/"me"  mapping start / end      e = "key"    a mapping key     *)
(*   e = "ss"/"se"  sequence start / end     e = "scalar" a scalar          *)
(*   e = "bad"      text no YAML parser accepts                             *)
(***************************************************************************)
Ev(kind) == [e |-> kind, k |-> "", s |-> "", sty |-> "", key |-> <<>>]

KeyEv(key) == [e |-> "key", k |-> "", s |-> "", sty |-> "", key |-> key]

ScalarEv(kind, text, style) == [e |-> "scalar", k |-> kind, s |-> text, sty |-> style, key |-> <<>>]

RECURSIVE Dump(_)
RECURSIVE DumpItems(_, _)
RECURSIVE DumpPairs(_, _)
DumpItems(n, i) ==
    IF i > Len(n.vs) THEN <<>> ELSE Dump(n.vs[i]) \o DumpItems(n, i + 1)

DumpPairs(n, i) ==
    IF i > Len(n.ks) THEN <<>>
    ELSE <<KeyEv(n.ks[i])>> \o Dump(n.vs[i]) \o DumpPairs(n, i + 1)

\* The style the emitter writes a string in: the style the value carries
\* (LiteralScalarString, DoubleQuotedScalarString), and double quotes for a
\* plain str that holds a line break.
EmitStyle(n) ==
    IF n.sty = "plain" /\ HasNewline(n.s) THEN "dq" ELSE n.sty

\* yaml.dump of the round-trip YAML(): tagged scalars are written with
\* their tag.
Dump(n) ==
    CASE n.t = "null" -> <<ScalarEv("null", "", "")>>
      [] n.t = "str" -> <<ScalarEv("str", n.s, EmitStyle(n))>>
      [] n.t = "tag" -> <<ScalarEv("tag", n.s, "")>>
      [] n.t = "seq" -> <<Ev("ss")>> \o DumpItems(n, 1) \o <<Ev("se")>>
      [] OTHER -> <<Ev("ms")>> \o DumpPairs(n, 1) \o <<Ev("me")>>

ParseFail == [ok |-> FALSE, n |-> Null, i |-> 0]

ScalarOf(ev) ==
    CASE ev.k = "null" -> Null
      [] ev.k = "tag" -> PyTag(ev.s)
      [] OTHER -> StrStyled(ev.s, ev.sty)

RECURSIVE ParseAt(_, _)
RECURSIVE ParseSeqItems(_, _, _)
RECURSIVE ParseMapItems(_, _, _, _)
ParseSeqItems(ev, i, acc) ==
    IF i > Len(ev) THEN ParseFail
    ELSE IF ev[i].e = "se" THEN [ok |-> TRUE, n |-> SeqNode(acc), i |-> i + 1]
    ELSE LET r == ParseAt(ev, i)
         IN  IF r.ok THEN ParseSeqItems(ev, r.i, Append(acc, r.n)) ELSE ParseFail

ParseMapItems(ev, i, keys, values) ==
    IF i > Len(ev) THEN ParseFail
    ELSE IF ev[i].e = "me" THEN [ok |-> TRUE, n |-> MapNode(keys, values), i |-> i + 1]
    ELSE IF ev[i].e # "key" \/ (\E j \in DOMAIN keys : keys[j] = ev[i].key) THEN ParseFail
    ELSE LET r == ParseAt(ev, i + 1)
         IN  IF r.ok
             THEN ParseMapItems(ev, r.i, Append(keys, ev[i].key), Append(values, r.n))
             ELSE ParseFail

ParseAt(ev, i) ==
    IF i > Len(ev) THEN ParseFail
    ELSE CASE ev[i].e = "scalar" -> [ok |-> TRUE, n |-> ScalarOf(ev[i]), i |-> i + 1]
           [] ev[i].e = "ss" -> ParseSeqItems(ev, i + 1, <<>>)
           [] ev[i].e = "ms" -> ParseMapItems(ev, i + 1, <<>>, <<>>)
           [] OTHER -> ParseFail

\* yaml.load of the round-trip YAML() with preserve_quotes: [ok, doc]; not ok
\* is a YAMLError. An empty text loads as None.
RoundTripLoad(ev) ==
    IF ev = <<>> THEN [ok |-> TRUE, doc |-> Null]
    ELSE LET r == ParseAt(ev, 1)
         IN  IF r.ok /\ r.i = Len(ev) + 1
             THEN [ok |-> TRUE, doc |-> r.n]
             ELSE [ok |-> FALSE, doc |-> Null]

\* re.sub(r"!!python/name:\S+", '"__PYTHON_TAG_PLACEHOLDER__"', content),
\* applied when the content holds "!!python/name:".
SubstitutePythonTags(ev) ==
    [i \in DOMAIN ev |->
        IF ev[i].e = "scalar" /\ ev[i].k = "tag"
        THEN ScalarEv("str", "__PYTHON_TAG_PLACEHOLDER__", "dq")
        ELSE ev[i]]

RECURSIVE PlainData(_)
\* What YAML(typ="safe") constructs: plain str, list and dict.
PlainData(n) ==
    CASE n.t = "str" -> Str(n.s)
      [] n.t \in {"seq", "map"} ->
            [n EXCEPT !.vs = [i \in DOMAIN n.vs |-> PlainData(n.vs[i])]]
      [] OTHER -> n

RECURSIVE HasTag(_)
HasTag(n) ==
    \/ n.t = "tag"
    \/ \E i \in DOMAIN n.vs : HasTag(n.vs[i])

\* yaml_safe.load: the safe constructor rejects a tag it does not know.
SafeLoad(ev) ==
    LET r == RoundTripLoad(ev)
    IN  IF r.ok /\ ~HasTag(r.doc)
        THEN [ok |-> TRUE, doc |-> PlainData(r.doc)]
        ELSE [ok |-> FALSE, doc |-> Null]

(***************************************************************************)
(* _merge_yaml_in_place.                                                    *)
(***************************************************************************)
\* f"{key_prefix}.{key}" if key_prefix else key
JoinPath(prefix, key) == IF prefix = <<>> THEN key ELSE prefix \o <<".">> \o key

\* str.startswith
StartsWith(str, pre) == Len(pre) <= Len(str) /\ SubSeq(str, 1, Len(pre)) = pre

\* Mutant: any owned entry that is a character prefix of the path owns it.
IsTemplateOwnedByPrefix(path, owned) ==
    \E o \in owned : path = o \/ StartsWith(path, o)

IsTemplateOwned(path, owned) ==
    \E o \in owned : path = o \/ StartsWith(path, o \o <<".">>)

\* _preserve_scalar_style: a str holding a line break becomes a
\* LiteralScalarString; every other value is returned as it is.
PreserveScalarStyle(v) ==
    IF v.t = "str" /\ HasNewline(v.s) THEN StrStyled(v.s, "literal") ELSE v

\* Mutant: the second loop is missing.
OrphanRecordsNone(ex, tp, prefix, i) == <<>>

\* The second loop: one `preserved` record per key of the existing mapping
\* that the template does not have, in the existing mapping's order.
RECURSIVE OrphanRecords(_, _, _, _)
OrphanRecords(ex, tp, prefix, i) ==
    IF i > Len(ex.ks) THEN <<>>
    ELSE (IF HasKey(tp, ex.ks[i]) THEN <<>>
          ELSE <<FileChange(JoinPath(prefix, ex.ks[i]), "preserved",
                            SomeStr(PyStr(ex.vs[i])), NoneStr)>>)
         \o OrphanRecords(ex, tp, prefix, i + 1)

MergeError == [err |-> TRUE, doc |-> Null, ch |-> <<>>]

\* Mutant: the guard lets one level too many through.
DepthExceededLate(depth, maxDepth) == depth > maxDepth + 1

\* Mutant: the guard stops a call at the limit itself.
DepthExceededAtLimit(depth, maxDepth) == depth >= maxDepth

\* The recursion guard at the head of _merge_yaml_in_place.
DepthExceeded(depth, maxDepth) == depth > maxDepth

\* The records of the template-owned branch.
OwnedRecords(path, ev, tv) ==
    IF PyEq(ev, tv) THEN <<>>
    ELSE IF ev.t = "null"
    THEN <<FileChange(path, "added", NoneStr, SomeStr(PyStr(tv)))>>
    ELSE <<FileChange(path, "updated", SomeStr(PyStr(ev)), SomeStr(PyStr(tv)))>>

\* Mutant: a value the user set is overwritten like a missing one.
KeyBranchClobbers(path, ev, tv, owned) ==
    IF IsTemplateOwned(path, owned) THEN "owned"
    ELSE IF IsMap(tv) /\ IsMap(ev) THEN "recurse"
    ELSE "add"

\* Mutant: a key the existing document lacks is logged, never inserted.
KeyBranchNeverAdds(path, ev, tv, owned) ==
    IF IsTemplateOwned(path, owned) THEN "owned"
    ELSE IF IsMap(tv) /\ IsMap(ev) THEN "recurse"
    ELSE "preserve"

\* Which branch of the first loop a template key takes.
KeyBranch(path, ev, tv, owned) ==
    IF IsTemplateOwned(path, owned) THEN "owned"
    ELSE IF IsMap(tv) /\ IsMap(ev) THEN "recurse"
    ELSE IF ev.t # "null" THEN "preserve"
    ELSE "add"

PreservedRecord(path, ev) == FileChange(path, "preserved", SomeStr(PyStr(ev)), NoneStr)

\* Mutant: a null template value is recorded as no new value.
AddedRecordOfNull(path, tv) ==
    FileChange(path, "added", NoneStr, IF tv.t = "null" THEN NoneStr ELSE SomeStr(PyStr(tv)))

AddedRecord(path, tv) ==
    FileChange(path, "added", NoneStr, SomeStr(IF tv.t = "null" THEN "" ELSE PyStr(tv)))

RECURSIVE MergeYamlInPlace(_, _, _, _, _, _)
RECURSIVE MergeTemplateKeys(_, _, _, _, _, _, _, _)
\* The first loop, from the template's i-th key on; ex is the existing
\* mapping as mutated so far and ch the records emitted so far.
MergeTemplateKeys(ex, tp, owned, prefix, depth, maxDepth, i, ch) ==
    IF i > Len(tp.ks) THEN [err |-> FALSE, doc |-> ex, ch |-> ch]
    ELSE
      LET key == tp.ks[i]
          tv == tp.vs[i]
          path == JoinPath(prefix, key)
          ev == MapGet(ex, key)
          branch == KeyBranch(path, ev, tv, owned)
          sub == MergeYamlInPlace(ev, tv, owned, path, depth + 1, maxDepth)
      IN  CASE branch = "owned" ->
                 MergeTemplateKeys(MapSet(ex, key, PreserveScalarStyle(tv)), tp, owned,
                                   prefix, depth, maxDepth, i + 1,
                                   ch \o OwnedRecords(path, ev, tv))
            [] branch = "recurse" ->
                 IF sub.err THEN MergeError
                 ELSE MergeTemplateKeys(MapSet(ex, key, sub.doc), tp, owned, prefix,
                                        depth, maxDepth, i + 1, ch \o sub.ch)
            [] branch = "preserve" ->
                 MergeTemplateKeys(ex, tp, owned, prefix, depth, maxDepth, i + 1,
                                   Append(ch, PreservedRecord(path, ev)))
            [] OTHER ->
                 MergeTemplateKeys(MapSet(ex, key, PreserveScalarStyle(tv)), tp, owned,
                                   prefix, depth, maxDepth, i + 1,
                                   Append(ch, AddedRecord(path, tv)))

\* Mutant: the keys only the existing mapping has are recorded first.
MergeYamlInPlaceOrphansFirst(ex, tp, owned, prefix, depth, maxDepth) ==
    IF DepthExceeded(depth, maxDepth) THEN MergeError
    ELSE LET r == MergeTemplateKeys(ex, tp, owned, prefix, depth, maxDepth, 1, <<>>)
         IN  IF r.err THEN MergeError
             ELSE [err |-> FALSE, doc |-> r.doc,
                   ch |-> OrphanRecords(r.doc, tp, prefix, 1) \o r.ch]

\* [err, doc, ch]: err is the CLIError of the depth guard, doc the existing
\* mapping after the merge, ch the list of FileChange records.
MergeYamlInPlace(ex, tp, owned, prefix, depth, maxDepth) ==
    IF DepthExceeded(depth, maxDepth) THEN MergeError
    ELSE LET r == MergeTemplateKeys(ex, tp, owned, prefix, depth, maxDepth, 1, <<>>)
         IN  IF r.err THEN MergeError
             ELSE [err |-> FALSE, doc |-> r.doc,
                   ch |-> r.ch \o OrphanRecords(r.doc, tp, prefix, 1)]

(***************************************************************************)
(* _merge_yaml_configs of cli.py: the merge that builds a fresh dict.       *)
(***************************************************************************)
RECURSIVE MergeYamlConfigs(_, _, _, _, _, _)
RECURSIVE ConfigsTemplateKeys(_, _, _, _, _, _, _, _, _)
RECURSIVE ConfigsOrphans(_, _, _, _, _)
\* The first loop, from the template's i-th key on; merged is the dict
\* built so far and ch the records emitted so far.
ConfigsTemplateKeys(ex, tp, owned, prefix, depth, maxDepth, i, merged, ch) ==
    IF i > Len(tp.ks) THEN [err |-> FALSE, doc |-> merged, ch |-> ch]
    ELSE
      LET key == tp.ks[i]
          tv == tp.vs[i]
          path == JoinPath(prefix, key)
          ev == MapGet(ex, key)
          sub == MergeYamlConfigs(ev, tv, owned, path, depth + 1, maxDepth)
      IN  IF IsTemplateOwned(path, owned)
          THEN ConfigsTemplateKeys(ex, tp, owned, prefix, depth, maxDepth, i + 1,
                                   MapSet(merged, key, tv), ch \o OwnedRecords(path, ev, tv))
          ELSE IF IsMap(tv) /\ IsMap(ev)
          THEN (IF sub.err THEN MergeError
                ELSE ConfigsTemplateKeys(ex, tp, owned, prefix, depth, maxDepth, i + 1,
                                         MapSet(merged, key, sub.doc), ch \o sub.ch))
          ELSE IF ev.t # "null"
          THEN ConfigsTemplateKeys(ex, tp, owned, prefix, depth, maxDepth, i + 1,
                                   MapSet(merged, key, ev),
                                   Append(ch, PreservedRecord(path, ev)))
          ELSE ConfigsTemplateKeys(ex, tp, owned, prefix, depth, maxDepth, i + 1,
                                   MapSet(merged, key, tv),
                                   Append(ch, FileChange(path, "added", NoneStr,
                                                         SomeStr(PyStr(tv)))))

\* The second loop: the existing keys the merged dict does not have yet.
ConfigsOrphans(ex, prefix, i, merged, ch) ==
    IF i > Len(ex.ks) THEN [err |-> FALSE, doc |-> merged, ch |-> ch]
    ELSE IF HasKey(merged, ex.ks[i]) THEN ConfigsOrphans(ex, prefix, i + 1, merged, ch)
    ELSE ConfigsOrphans(ex, prefix, i + 1, MapSet(merged, ex.ks[i], ex.vs[i]),
                        Append(ch, FileChange(JoinPath(prefix, ex.ks[i]), "preserved",
                                              SomeStr(PyStr(ex.vs[i])), NoneStr)))

MergeYamlConfigs(ex, tp, owned, prefix, depth, maxDepth) ==
    IF depth > maxDepth THEN MergeError
    ELSE LET r == ConfigsTemplateKeys(ex, tp, owned, prefix, depth, maxDepth, 1,
                                      EmptyMap, <<>>)
         IN  IF r.err THEN MergeError
             ELSE ConfigsOrphans(ex, prefix, 1, r.doc, r.ch)

(***************************************************************************)
(* merge_mkdocs_yaml.                                                       *)
(***************************************************************************)
BaseOwnedKeys ==
    {P_gen_files_scripts, P_search, P_mkdocstrings, P_mermaid2, P_termynal,
     P_literate_nav, P_theme_name, P_theme_palette, K_markdown_extensions}

TemplateOwnedKeys(tp) ==
    BaseOwnedKeys
        \cup (IF Truthy(MapGet(tp, K_site_url)) THEN {K_site_url} ELSE {})
        \cup (IF Truthy(MapGet(tp, K_repo_url)) THEN {K_repo_url} ELSE {})

\* The template as merge_mkdocs_yaml parses it: [ok, doc].
LoadTemplate(content) ==
    LET forParsing == IF \E i \in DOMAIN content :
                            content[i].e = "scalar" /\ content[i].k = "tag"
                      THEN SubstitutePythonTags(content)
                      ELSE content
        r == SafeLoad(forParsing)
    IN  [ok |-> r.ok, doc |-> IF r.ok /\ IsMap(r.doc) THEN r.doc ELSE EmptyMap]

\* The existing file as merge_mkdocs_yaml loads it: [ok, doc].
LoadExisting(text) ==
    LET r == RoundTripLoad(text)
    IN  [ok |-> r.ok, doc |-> IF r.ok /\ IsMap(r.doc) THEN r.doc ELSE EmptyMap]

\* [err, text, ch, E, T, M]: err is "" or names the CLIError raised; E and T
\* are the two documents handed to the merge, M the merged document, text
\* its dump.
MergeMkdocsYaml(existingText, content) ==
    LET e == LoadExisting(existingText)
        t == LoadTemplate(content)
        m == MergeYamlInPlace(e.doc, t.doc, TemplateOwnedKeys(t.doc), <<>>, 0,
                              DefaultMaxDepth)
        failed(why) == [err |-> why, text |-> <<>>, ch |-> <<>>,
                        E |-> e.doc, T |-> t.doc, M |-> Null]
    IN  IF ~e.ok THEN failed("parse existing")
        ELSE IF ~t.ok THEN failed("parse template")
        ELSE IF m.err THEN failed("max depth")
        ELSE [err |-> "", text |-> Dump(m.doc), ch |-> m.ch,
              E |-> e.doc, T |-> t.doc, M |-> m.doc]

(***************************************************************************)
(* The documents and texts the model starts from.                           *)
(***************************************************************************)
Absent == [t |-> "absent", s |-> "", sty |-> "", ks |-> <<>>, vs |-> <<>>]

\* The mapping of the <<key, value>> pairs whose value is not Absent.
MkMap(pairs) ==
    LET kept == SelectSeq(pairs, LAMBDA p : p[2].t # "absent")
    IN  MapNode([i \in DOMAIN kept |-> kept[i][1]], [i \in DOMAIN kept |-> kept[i][2]])

RECURSIVE NestedDoc(_)
\* A mapping with k mappings nested below it, each under the key x.
NestedDoc(k) ==
    IF k = 0 THEN MapNode(<<K_x>>, <<Str("v")>>)
    ELSE MapNode(<<K_x>>, <<NestedDoc(k - 1)>>)

ExistingThemes ==
    {Absent, Null, Str("readthedocs")}
        \cup {MkMap(<<<<K_name, a>>, <<K_features, b>>, <<K_palette, c>>>>) :
                a \in {Absent, Str("material"), Str("custom")},
                b \in {Absent, SeqNode(<<Str("tabs")>>), MkMap(<<<<K_x, Str("1")>>>>)},
                c \in {Absent, Str("dark")}}

\* <<site_url, markdown_extensions, extra>> of an existing document.
ExistingRest ==
    {<<Absent, Absent, Absent>>,
     <<Str("http://old"), Absent, Absent>>,
     <<Null, Absent, PyTag("user.fn")>>,
     <<Absent, SeqNode(<<Str("admonition"), PyTag("fence")>>), Absent>>,
     <<Absent, Str("none"), StrStyled("line1\nline2", "literal")>>,
     <<Str("http://old"), SeqNode(<<Str("admonition"), PyTag("fence")>>),
       MkMap(<<<<K_x, PyTag("user.fn")>>>>)>>}

ExistingDocs ==
    {MkMap(<<<<K_theme, th>>, <<K_site_url, r[1]>>, <<K_markdown_extensions, r[2]>>,
             <<K_extra, r[3]>>>>) :
        th \in ExistingThemes, r \in ExistingRest}

TemplateThemes ==
    {Absent, Str("material"),
     MkMap(<<<<K_name, Str("material")>>>>),
     MkMap(<<<<K_name, Str("material")>>, <<K_palette, SeqNode(<<Str("indigo")>>)>>,
             <<K_features, MkMap(<<<<K_x, Str("2")>>, <<K_name, Null>>>>)>>>>)}

\* <<markdown_extensions, extra>> of a template.
TemplateRest ==
    {<<Absent, Absent>>,
     <<SeqNode(<<Str("admonition"), PyTag("fence")>>), Str("line1\nline2")>>}

TemplateDocs ==
    {MkMap(<<<<K_site_url, su>>, <<K_theme, th>>, <<K_markdown_extensions, r[1]>>,
             <<K_extra, r[2]>>>>) :
        th \in TemplateThemes,
        su \in {Absent, Null, Str("http://new")},
        r \in TemplateRest}

\* Texts no parser accepts, and texts whose root is not a mapping.
MalformedText == <<Ev("ms"), Ev("bad")>>

NonMappingTexts == {<<>>, Dump(SeqNode(<<Str("a")>>)), Dump(Str("a"))}

NoFile == [exists |-> FALSE, ev |-> <<>>]

FileOf(text) == [exists |-> TRUE, ev |-> text]

\* The (mkdocs.yml, rendered template) pairs a run starts from.
StartPairs ==
    ({FileOf(Dump(d)) : d \in ExistingDocs} \X {Dump(d) : d \in TemplateDocs})
        \cup (({NoFile, FileOf(MalformedText)} \cup {FileOf(x) : x \in NonMappingTexts})
                \X {Dump(d) : d \in TemplateDocs})
        \cup ({FileOf(Dump(NestedDoc(1)))} \X {MalformedText})

(***************************************************************************)
(* create_mkdocs_config.                                                    *)
(***************************************************************************)
RunRecord(before, after, out, r) ==
    [before |-> before, after |-> after, out |-> out, err |-> r.err, ch |-> r.ch,
     E |-> r.E, T |-> r.T, M |-> r.M]

NoMerge == [err |-> "", text |-> <<>>, ch |-> <<>>, E |-> Null, T |-> Null, M |-> Null]

\* Mutant: the file is opened for writing before the merge, so a failed
\* merge leaves it truncated.
CreateMkdocsConfigTruncates ==
    /\ Len(log) < MaxRuns
    /\ IF file.exists
       THEN LET r == MergeMkdocsYaml(file.ev, tmpl)
            IN  /\ file' = FileOf(r.text)
                /\ log' = Append(log, RunRecord(file, FileOf(r.text),
                                     IF r.err # "" THEN "CLIError" ELSE "merged", r))
       ELSE /\ file' = FileOf(tmpl)
            /\ log' = Append(log, RunRecord(file, FileOf(tmpl), "created", NoMerge))
    /\ UNCHANGED <<tmpl, ci, ciLog, call, layout, loads, pyproject, proc, repo,
                 gitignore>>

\* One run: merge into the file when it exists (a CLIError leaves before the
\* write), write the rendered template when it does not.
CreateMkdocsConfig ==
    /\ Len(log) < MaxRuns
    /\ IF file.exists
       THEN LET r == MergeMkdocsYaml(file.ev, tmpl)
            IN  IF r.err # ""
                THEN /\ file' = file
                     /\ log' = Append(log, RunRecord(file, file, "CLIError", r))
                ELSE /\ file' = FileOf(r.text)
                     /\ log' = Append(log, RunRecord(file, FileOf(r.text), "merged", r))
       ELSE /\ file' = FileOf(tmpl)
            /\ log' = Append(log, RunRecord(file, FileOf(tmpl), "created", NoMerge))
    /\ UNCHANGED <<tmpl, ci, ciLog, call, layout, loads, pyproject, proc, repo,
                 gitignore>>

(***************************************************************************)
(* append_to_yaml_list.                                                     *)
(***************************************************************************)
\* Mutant: an existing list is replaced by the new entry alone.
AppendToYamlListReplaces(f, key, value) ==
    LET raw == RoundTripLoad(f.ev)
        old == MapGet(raw.doc, key)
        new == CASE old.t = "null" -> SeqNode(<<value>>)
                 [] old.t = "seq" -> SeqNode(<<value>>)
                 [] OTHER -> SeqNode(<<old, value>>)
    IN  IF ~f.exists \/ ~raw.ok THEN [result |-> "raise", text |-> <<>>]
        ELSE IF ~IsMap(raw.doc) THEN [result |-> "false", text |-> <<>>]
        ELSE [result |-> "true", text |-> Dump(MapSet(raw.doc, key, new))]

\* Mutant: a root that is not a mapping is taken for an empty mapping, as
\* merge_mkdocs_yaml takes it.
AppendToYamlListAnyRoot(f, key, value) ==
    LET raw == RoundTripLoad(f.ev)
        doc == IF IsMap(raw.doc) THEN raw.doc ELSE EmptyMap
        old == MapGet(doc, key)
        new == CASE old.t = "null" -> SeqNode(<<value>>)
                 [] old.t = "seq" -> SeqNode(Append(old.vs, value))
                 [] OTHER -> SeqNode(<<old, value>>)
    IN  IF ~f.exists \/ ~raw.ok THEN [result |-> "raise", text |-> <<>>]
        ELSE [result |-> "true", text |-> Dump(MapSet(doc, key, new))]

\* [result, text]: result is "true", "false" or "raise" (read_text or
\* yaml.load raised); text is what is written to the file when result is
\* "true".
AppendToYamlList(f, key, value) ==
    LET raw == RoundTripLoad(f.ev)
        old == MapGet(raw.doc, key)
        new == CASE old.t = "null" -> SeqNode(<<value>>)
                 [] old.t = "seq" -> SeqNode(Append(old.vs, value))
                 [] OTHER -> SeqNode(<<old, value>>)
    IN  IF ~f.exists \/ ~raw.ok THEN [result |-> "raise", text |-> <<>>]
        ELSE IF ~IsMap(raw.doc) THEN [result |-> "false", text |-> <<>>]
        ELSE [result |-> "true", text |-> Dump(MapSet(raw.doc, key, new))]

IncludeEntries ==
    {MkMap(<<<<K_local, Str("pages.yml")>>>>), MkMap(<<<<K_local, Str("b.yml")>>>>)}

AppendKeys == {K_include, K_stages}

AppendCall ==
    /\ Len(ciLog) < MaxAppends
    /\ \E key \in AppendKeys, value \in IncludeEntries :
          LET r == AppendToYamlList(ci, key, value)
              after == IF r.result = "true" THEN FileOf(r.text) ELSE ci
          IN  /\ ci' = after
              /\ ciLog' = Append(ciLog, [before |-> ci, after |-> after, key |-> key,
                                          value |-> value, result |-> r.result])
    /\ UNCHANGED <<file, tmpl, log, call, layout, loads, pyproject, proc, repo,
                 gitignore>>

CiDocs ==
    {MkMap(<<<<K_stages, st>>, <<K_include, inc>>, <<K_extra, ex>>>>) :
        st \in {Absent, SeqNode(<<Str("test")>>)},
        inc \in {Absent, Null, Str("a.yml"), PyTag("ref"),
                 MkMap(<<<<K_local, Str("a.yml")>>>>),
                 SeqNode(<<MkMap(<<<<K_local, Str("a.yml")>>>>)>>),
                 SeqNode(<<Str("t.yml"), MkMap(<<<<K_local, StrStyled("a.yml", "dq")>>>>)>>)},
        ex \in {Absent, MkMap(<<<<K_x, Str("1")>>>>)}}

CiFiles ==
    {FileOf(Dump(d)) : d \in CiDocs}
        \cup {FileOf(x) : x \in NonMappingTexts}
        \cup {NoFile, FileOf(MalformedText)}

(***************************************************************************)
(* A direct call of _merge_yaml_in_place(existing, template, owned,         *)
(* max_depth = d).                                                          *)
(***************************************************************************)
K_site_name == <<"s", "i", "t", "e", "_", "n", "a", "m", "e">>

K_plugins == <<"p", "l", "u", "g", "i", "n", "s">>

K_search == <<"s", "e", "a", "r", "c", "h">>

\* The worked example of a merge: a customised theme, a template that brings
\* a palette and a plugins mapping.
ScenarioE ==
    MapNode(<<K_theme, K_site_name>>,
            <<MapNode(<<K_name, K_features>>,
                      <<Str("custom-theme"), SeqNode(<<Str("nav.tabs")>>)>>),
              Str("My Project")>>)

ScenarioT ==
    MapNode(<<K_theme, K_site_name, K_plugins>>,
            <<MapNode(<<K_name, K_palette>>,
                      <<Str("material"), SeqNode(<<Str("slate")>>)>>),
              Str("My Project"),
              MapNode(<<K_search>>, <<EmptyMap>>)>>)

ScenarioOwned == {P_theme_name, P_search}

\* A pair whose keys come in different orders in the two documents, with
\* keys only one side has at both levels.
OrderE ==
    MapNode(<<K_stages, K_extra, K_site_name>>,
            <<Str("s"), MapNode(<<K_x, K_name>>, <<Str("1"), Str("n")>>), Str("p")>>)

OrderT ==
    MapNode(<<K_site_name, K_extra, K_theme>>,
            <<Str("q"), MapNode(<<K_name, K_palette>>, <<Str("m"), Str("d")>>),
              Str("t")>>)

\* theme.names shares a character prefix with the owned theme.name.
K_names == <<"n", "a", "m", "e", "s">>

BoundaryE ==
    MapNode(<<K_theme>>, <<MapNode(<<K_names, K_name>>, <<Str("u"), Str("custom")>>)>>)

BoundaryT ==
    MapNode(<<K_theme>>, <<MapNode(<<K_names, K_name>>, <<Str("t"), Str("material")>>)>>)

CallExisting ==
    {NestedDoc(k) : k \in 0..(MaxDepthArg + 2)}
        \cup {MapNode(<<K_x, K_extra>>, <<NestedDoc(MaxDepthArg), Str("u")>>),
              MapNode(<<K_extra>>, <<NestedDoc(MaxDepthArg + 1)>>),
              ScenarioE, OrderE, MapNode(<<K_x>>, <<MapNode(<<K_extra>>, <<Str("u")>>)>>),
              BoundaryE}

CallTemplates ==
    {NestedDoc(k) : k \in 0..(MaxDepthArg + 2)}
        \cup {EmptyMap,
              MapNode(<<K_extra, K_x>>, <<NestedDoc(MaxDepthArg + 1), NestedDoc(1)>>),
              ScenarioT, OrderT,
              MapNode(<<K_x>>, <<MapNode(<<K_x, K_name>>, <<Null, Null>>)>>),
              BoundaryT}

CallOwned == {{}, {<<"x", ".", "x">>}, BaseOwnedKeys, ScenarioOwned}

NoCall == [pc |-> "ready", E |-> Null, T |-> Null, owned |-> {}, depth |-> 0, maxDepth |-> 0,
           res |-> MergeError, cli |-> MergeError]

MergeCall ==
    /\ call.pc = "ready"
    /\ \E e \in CallExisting, t \in CallTemplates, o \in CallOwned,
          d0 \in 0..MaxDepthArg, d \in 0..MaxDepthArg :
          call' = [pc |-> "done", E |-> e, T |-> t, owned |-> o, depth |-> d0,
                   maxDepth |-> d, res |-> MergeYamlInPlace(e, t, o, <<>>, d0, d),
                   cli |-> MergeYamlConfigs(e, t, o, <<>>, d0, d)]
    /\ UNCHANGED <<file, tmpl, log, ci, ciLog, layout, loads, pyproject, proc, repo,
                 gitignore>>

(***************************************************************************)
(* Indentation: the lines of a block-style text, the detector and the      *)
(* writer.  A line is [ind, kind, col]:                                     *)
(*   ind  : number of leading spaces                                        *)
(*   kind : "key" for `k:`, "kv" for `k: v`, "item" for `- v` and `- k: v`, *)
(*          "kc" for `k: # comment`, a key whose value starts on the next   *)
(*          line but whose line does not end with the colon                 *)
(*   col  : column of the first character that is neither a space nor the   *)
(*          dash                                                            *)
(***************************************************************************)
Line(ind, kind, col) == [ind |-> ind, kind |-> kind, col |-> col]

Profile(m, s, o) == [mapping |-> m, sequence |-> s, offset |-> o]

default_indent == Profile(2, 2, 0)

None == -1

Larger(a, b) == IF a > b THEN a ELSE b

\* The round-trip writer under yaml.indent(mapping, sequence, offset): the
\* keys of a nested mapping stand `mapping` columns right of their parent
\* key, the dash of a sequence `offset` columns right of its parent key, and
\* an item's content `sequence` columns right of it (or right behind "- "
\* when the dash leaves no room).
RECURSIVE LayoutMap(_, _, _, _), LayoutSeq(_, _, _, _)
LayoutMap(n, c, p, i) ==
    IF i > Len(n.ks) THEN <<>>
    ELSE LET v == n.vs[i]
             here == IF IsMap(v) /\ Len(v.ks) > 0
                     THEN <<Line(c, "key", c)>> \o LayoutMap(v, c + p.mapping, p, 1)
                     ELSE IF IsSeq(v) /\ Len(v.vs) > 0
                     THEN <<Line(c, "key", c)>> \o LayoutSeq(v, c, p, 1)
                     ELSE <<Line(c, "kv", c)>>
         IN  here \o LayoutMap(n, c, p, i + 1)

LayoutSeq(n, c, p, i) ==
    IF i > Len(n.vs) THEN <<>>
    ELSE LET v == n.vs[i]
             dash == c + p.offset
             item == Line(dash, "item", Larger(c + p.sequence, dash + 2))
             rest == IF IsMap(v) THEN LayoutMap(v, c + p.sequence, p, 2) ELSE <<>>
         IN  <<item>> \o rest \o LayoutSeq(n, c, p, i + 1)

Layout(doc, p) == IF IsMap(doc) THEN LayoutMap(doc, 0, p, 1) ELSE <<>>

\* load_yaml_guess_indent: the first dash line settles (indent,
\* block_seq_indent) relative to the last key-only line; without a dash line
\* the indent is the step from the first key-only line to the line below it.
RECURSIVE GuessFrom(_, _, _, _, _)
GuessFrom(lines, i, mapIndent, prevKeyOnly, keyIndent) ==
    IF i > Len(lines) THEN [indent |-> mapIndent, block_seq_indent |-> None]
    ELSE LET ln == lines[i]
             mi == IF mapIndent = None /\ prevKeyOnly # None /\ ln.col > prevKeyOnly
                   THEN ln.col - prevKeyOnly ELSE mapIndent
         IN  IF ln.kind = "item"
             THEN [indent |-> ln.col - keyIndent, block_seq_indent |-> ln.ind - keyIndent]
             ELSE IF ln.kind = "key"
             THEN GuessFrom(lines, i + 1, mi, ln.ind, ln.ind)
             ELSE GuessFrom(lines, i + 1, mi, None, keyIndent)

load_yaml_guess_indent(lines) == GuessFrom(lines, 1, None, None, 0)

\* _detect_yaml_indentation, from the raw guess.
ResolveProfile(indent, block_seq_indent) ==
    LET mapping0 == IF indent # None THEN indent ELSE 2
        offset == IF block_seq_indent # None THEN block_seq_indent ELSE 0
        mapping_indent == IF offset > 0
                          THEN (IF indent # None /\ indent # 0 THEN indent - offset ELSE 2)
                          ELSE mapping0
    IN  Profile(mapping_indent, mapping_indent, offset)

DetectYamlIndentation(lines) ==
    LET g == load_yaml_guess_indent(lines)
    IN  ResolveProfile(g.indent, g.block_seq_indent)

\* Documents and the styles they are written in: the dash right of its key
\* by `offset`, the item right behind "- ".
WrittenStyles == {Profile(m, o + 2, o) : m \in {2, 4}, o \in {0, 2, 4}}

LayoutDocs ==
    LET a == Str("a")
        feats == SeqNode(<<a, Str("b")>>)
        inc == SeqNode(<<MkMap(<<<<K_local, a>>>>)>>)
    IN  {MkMap(<<<<K_include, inc>>>>),
         MkMap(<<<<K_theme, MkMap(<<<<K_features, feats>>>>)>>>>),
         MkMap(<<<<K_theme, MkMap(<<<<K_name, a>>, <<K_features, feats>>>>)>>>>),
         MkMap(<<<<K_theme, MkMap(<<<<K_features, feats>>, <<K_name, a>>>>)>>>>),
         MkMap(<<<<K_site_url, a>>, <<K_theme, MkMap(<<<<K_name, a>>>>)>>>>),
         MkMap(<<<<K_theme, MkMap(<<<<K_palette, MkMap(<<<<K_x, a>>>>)>>>>)>>,
                 <<K_include, inc>>>>),
         MkMap(<<<<K_site_url, a>>>>),
         MkMap(<<<<K_theme, MkMap(<<<<K_name, a>>>>)>>, <<K_include, inc>>>>),
         MkMap(<<<<K_include, inc>>, <<K_theme, MkMap(<<<<K_name, a>>>>)>>>>),
         MkMap(<<<<K_extra, MkMap(<<<<K_x, MkMap(<<<<K_stages, feats>>>>)>>>>)>>>>)}

NoLayout == [pc |-> "idle", doc |-> Null, written |-> default_indent, lines |-> <<>>,
             applied |-> default_indent, out |-> <<>>]

\* A document whose sequence stands under a key with a trailing comment,
\* below a nested key that has no value:
\*     theme:
\*       name:
\*     include: # comment
\*     - a
CommentedDoc ==
    MkMap(<<<<K_theme, MkMap(<<<<K_name, Null>>>>)>>, <<K_include, SeqNode(<<Str("a")>>)>>>>)

CommentedLines(m, o) ==
    <<Line(0, "key", 0), Line(m, "key", m), Line(0, "kc", 0), Line(o, "item", o + 2)>>

LayoutStarts ==
    {[pc |-> "ready", doc |-> d, written |-> w, lines |-> Layout(d, w),
      applied |-> default_indent, out |-> <<>>] : d \in LayoutDocs, w \in WrittenStyles}
      \cup {[pc |-> "ready", doc |-> CommentedDoc, written |-> Profile(m, o + 2, o),
              lines |-> CommentedLines(m, o), applied |-> default_indent, out |-> <<>>] :
                 m \in {2, 4}, o \in {0, 2}}

\* merge_mkdocs_yaml on the text `lines` with a template that changes
\* nothing: the profile detected from the text is handed to the writer.
MergeKeepsLayout ==
    /\ layout.pc = "ready"
    /\ LET p == DetectYamlIndentation(layout.lines)
           r == MergeMkdocsYaml(Dump(layout.doc), Dump(EmptyMap))
       IN  layout' = [layout EXCEPT !.pc = "done", !.applied = p,
                                    !.out = Layout(r.M, p)]
    /\ UNCHANGED <<file, tmpl, log, ci, ciLog, call, loads, pyproject, proc, repo,
                 gitignore>>

(***************************************************************************)
(* The three places that load an existing file: load_yaml_preserve_format,  *)
(* merge_mkdocs_yaml and append_to_yaml_list.  A load record holds what the *)
(* caller gets: the exception raised ("" when none), whether its message    *)
(* carries the file name and the parser's message, and the value returned.  *)
(* Texts are taken to be written in the default style.                      *)
(***************************************************************************)
MaxLoads == 2

Raised(exc, fileName, parserMessage) ==
    [raised |-> exc, file_name |-> fileName, parser_message |-> parserMessage,
     returned |-> "", data |-> Null, indent |-> default_indent]

Returned(what, data, indent) ==
    [raised |-> "", file_name |-> FALSE, parser_message |-> FALSE,
     returned |-> what, data |-> data, indent |-> indent]

\* Mutant: the parser's error is passed on with the file name.
load_yaml_preserve_format_raises(f) ==
    LET r == RoundTripLoad(f.ev)
    IN  IF ~f.exists THEN Returned("tuple", Null, default_indent)
        ELSE IF ~r.ok THEN Raised("CLIError", TRUE, TRUE)
        ELSE IF IsMap(r.doc)
        THEN Returned("tuple", r.doc, DetectYamlIndentation(Layout(r.doc, default_indent)))
        ELSE Returned("tuple", Null, default_indent)

\* (data, indent_settings); data is None (Null here) for a missing file, an
\* unparseable text and a root that is not a mapping.
load_yaml_preserve_format(f) ==
    LET r == RoundTripLoad(f.ev)
    IN  IF ~f.exists THEN Returned("tuple", Null, default_indent)
        ELSE IF r.ok /\ IsMap(r.doc)
        THEN Returned("tuple", r.doc, DetectYamlIndentation(Layout(r.doc, default_indent)))
        ELSE Returned("tuple", Null, default_indent)

\* merge_mkdocs_yaml as a loader: read_text, then the guarded yaml.load.
MergeLoadOutcome(f) ==
    LET r == MergeMkdocsYaml(f.ev, Dump(EmptyMap))
    IN  IF ~f.exists THEN Raised("FileNotFoundError", TRUE, FALSE)
        ELSE IF r.err = "parse existing" THEN Raised("CLIError", TRUE, TRUE)
        ELSE IF r.err # "" THEN Raised("CLIError", FALSE, FALSE)
        ELSE Returned("merged", r.E, default_indent)

\* append_to_yaml_list as a loader: read_text and yaml.load are unguarded.
AppendLoadOutcome(f, r) ==
    IF ~f.exists THEN Raised("FileNotFoundError", TRUE, FALSE)
    ELSE IF r.result = "raise" THEN Raised("YAMLError", FALSE, TRUE)
    ELSE Returned(r.result, RoundTripLoad(f.ev).doc, default_indent)

LoadRecord(fn, f, outcome) == [fn |-> fn, before |-> f, out |-> outcome]

LoadPreserveFormat ==
    /\ Len(loads) < MaxLoads
    /\ loads' = Append(loads, LoadRecord("load_yaml_preserve_format", ci,
                                         load_yaml_preserve_format(ci)))
    /\ UNCHANGED <<file, tmpl, log, ci, ciLog, call, layout, pyproject, proc, repo,
                 gitignore>>

LoadForMerge ==
    /\ Len(loads) < MaxLoads
    /\ loads' = Append(loads, LoadRecord("merge_mkdocs_yaml", ci, MergeLoadOutcome(ci)))
    /\ UNCHANGED <<file, tmpl, log, ci, ciLog, call, layout, pyproject, proc, repo,
                 gitignore>>

LoadForAppend ==
    /\ Len(loads) < MaxLoads
    /\ \E value \in IncludeEntries :
          LET r == AppendToYamlList(ci, K_include, value)
          IN  /\ ci' = IF r.result = "true" THEN FileOf(r.text) ELSE ci
              /\ loads' = Append(loads, LoadRecord("append_to_yaml_list", ci,
                                                   AppendLoadOutcome(ci, r)))
    /\ UNCHANGED <<file, tmpl, log, ciLog, call, layout, pyproject, proc, repo,
                 gitignore>>

(***************************************************************************)
(* update_ruff_config.  Of pyproject.toml only tool.ruff.lint.select        *)
(* matters: cfg is [ruff, lint, select, items], each of ruff, lint and      *)
(* select being "absent", "other" (present but not of the expected type,    *)
(* a string) or the expected "table" / "list"; items are the entries of a   *)
(* select list, [str, v] with str FALSE for an entry that is not a string.  *)
(***************************************************************************)
MaxRuffCalls == 2

MaxSelect == 3

Rule(s) == [str |-> TRUE, v |-> s]

NotAString == [str |-> FALSE, v |-> "1"]

Cfg(ruff, lint, select, items) ==
    [ruff |-> ruff, lint |-> lint, select |-> select, items |-> items]

Contains(items, r) == \E i \in DOMAIN items : items[i] = r

\* select.append for each of "DOC" and "D" that is not in the list.
AddDocstringRules(select) ==
    LET s1 == IF Contains(select, Rule("DOC")) THEN select ELSE Append(select, Rule("DOC"))
    IN  IF Contains(s1, Rule("D")) THEN s1 ELSE Append(s1, Rule("D"))

\* Mutant: the rules are appended without looking.
update_ruff_config_appends(c) ==
    LET lintIsTable == c.ruff = "table" /\ c.lint = "table"
        select == IF lintIsTable /\ c.select = "list"
                  THEN SelectSeq(c.items, LAMBDA x : x.str) ELSE <<>>
    IN  [raised |-> FALSE,
         cfg |-> Cfg("table", "table", "list", select \o <<Rule("DOC"), Rule("D")>>)]

\* generator.py: what is missing or of another type is replaced by an empty
\* table / list, the entries of select that are not strings are dropped.
update_ruff_config(c) ==
    LET lintIsTable == c.ruff = "table" /\ c.lint = "table"
        select == IF lintIsTable /\ c.select = "list"
                  THEN SelectSeq(c.items, LAMBDA x : x.str) ELSE <<>>
    IN  [raised |-> FALSE, cfg |-> Cfg("table", "table", "list", AddDocstringRules(select))]

\* cli.py: only what is missing is created; a value of another type makes
\* the item assignment or the append raise.
cli_update_ruff_config(c) ==
    LET lint == IF c.ruff = "table" THEN c.lint ELSE "absent"
        select == IF lint = "table" THEN c.select ELSE "absent"
        items == IF select = "list" THEN c.items ELSE <<>>
    IN  IF c.ruff = "other" \/ lint = "other" \/ select = "other"
        THEN [raised |-> TRUE, cfg |-> c]
        ELSE [raised |-> FALSE, cfg |-> Cfg("table", "table", "list", AddDocstringRules(items))]

RECURSIVE SelectLists(_)
SelectLists(n) ==
    IF n = 0 THEN {<<>>}
    ELSE LET shorter == SelectLists(n - 1)
         IN  shorter \cup {Append(s, x) : s \in shorter,
                              x \in {Rule("E"), Rule("D"), Rule("DOC"), NotAString}}

RuffConfigs ==
    {Cfg(r, "absent", "absent", <<>>) : r \in {"absent", "other"}}
        \cup {Cfg("table", l, "absent", <<>>) : l \in {"absent", "other"}}
        \cup {Cfg("table", "table", s, <<>>) : s \in {"absent", "other"}}
        \cup {Cfg("table", "table", "list", items) : items \in SelectLists(MaxSelect)}

NoPyproject == [calls |-> 0, first |-> Cfg("absent", "absent", "absent", <<>>),
                cfg |-> Cfg("absent", "absent", "absent", <<>>), raised |-> FALSE]

RuffStep(r) ==
    pyproject' = [pyproject EXCEPT !.calls = @ + 1, !.cfg = r.cfg, !.raised = r.raised]

UpdateRuffConfig ==
    /\ pyproject.calls < MaxRuffCalls
    /\ ~pyproject.raised
    /\ RuffStep(update_ruff_config(pyproject.cfg))
    /\ UNCHANGED <<file, tmpl, log, ci, ciLog, call, layout, loads, proc, repo,
                 gitignore>>

CliUpdateRuffConfig ==
    /\ pyproject.calls < MaxRuffCalls
    /\ ~pyproject.raised
    /\ RuffStep(cli_update_ruff_config(pyproject.cfg))
    /\ UNCHANGED <<file, tmpl, log, ci, ciLog, call, layout, loads, proc, repo,
                 gitignore>>

(***************************************************************************)
(* build_docs / serve_docs and the processes they launch.                   *)
(* proc is [world, frames, launches, writes]:                               *)
(*   world    : what the target directory and PATH hold                     *)
(*   frames   : the running mkapidocs processes, the outermost first; a     *)
(*              frame is one call of build_docs or serve_docs               *)
(*   launches : one record per subprocess.run, oldest first                 *)
(*   writes   : how often gen_ref_pages.py was written                      *)
(***************************************************************************)
MaxProcs == 3

ExitCodes == {0, 1, 2}

NoCode == -1

Frame(op, internal) ==
    [op |-> op, internal |-> internal, pc |-> "start", child |-> "", childCode |-> NoCode,
     interrupted |-> FALSE, code |-> NoCode, exc |-> "", wrote |-> FALSE]

\* is_running_in_target_env: MKAPIDOCS_INTERNAL_CALL is "1".
is_running_in_target_env(f) == f.internal

Launch(cmd, flag) == [wrote |-> TRUE, exc |-> "", launch |-> cmd, flag |-> flag]

Raise(exc, wrote) == [wrote |-> wrote, exc |-> exc, launch |-> "", flag |-> FALSE]

\* Mutant: the child of `uv run` inherits the environment as it is.
DispatchForgetsFlag(f, w) ==
    IF ~w.yml THEN Raise("FileNotFoundError", FALSE)
    ELSE IF w.inTarget /\ ~is_running_in_target_env(f)
    THEN (IF ~w.uv THEN Raise("FileNotFoundError", TRUE)
          ELSE Launch("uv run mkapidocs", f.internal))
    ELSE IF is_running_in_target_env(f) /\ w.mkdocs THEN Launch("mkdocs", f.internal)
    ELSE IF ~w.uvx THEN Raise("FileNotFoundError", TRUE)
    ELSE Launch("uvx", f.internal)

\* Mutant: gen_ref_pages.py is written before mkdocs.yml is looked for.
DispatchWritesFirst(f, w) ==
    IF ~w.yml THEN Raise("FileNotFoundError", TRUE)
    ELSE IF w.inTarget /\ ~is_running_in_target_env(f)
    THEN (IF ~w.uv THEN Raise("FileNotFoundError", TRUE)
          ELSE Launch("uv run mkapidocs", TRUE))
    ELSE IF is_running_in_target_env(f) /\ w.mkdocs THEN Launch("mkdocs", f.internal)
    ELSE IF ~w.uvx THEN Raise("FileNotFoundError", TRUE)
    ELSE Launch("uvx", f.internal)

\* The body of build_docs and of serve_docs up to subprocess.run: the check
\* for mkdocs.yml, the write of gen_ref_pages.py, then the choice of the
\* command and of the child's MKAPIDOCS_INTERNAL_CALL.
Dispatch(f, w) ==
    IF ~w.yml THEN Raise("FileNotFoundError", FALSE)
    ELSE IF w.inTarget /\ ~is_running_in_target_env(f)
    THEN (IF ~w.uv THEN Raise("FileNotFoundError", TRUE)
          ELSE Launch("uv run mkapidocs", TRUE))
    ELSE IF is_running_in_target_env(f) /\ w.mkdocs THEN Launch("mkdocs", f.internal)
    ELSE IF ~w.uvx THEN Raise("FileNotFoundError", TRUE)
    ELSE Launch("uvx", f.internal)

\* Mutant: a failure of the child is reported as 1.
ReturnCodeMasks(childCode) == IF childCode = 0 THEN 0 ELSE 1

\* _run_subprocess and the else branch of _run_subprocess_with_interrupt.
ReturnCode(childCode) == childCode

\* The exit code of the `mkapidocs build` / `mkapidocs serve` command around
\* build_docs / serve_docs: typer.Exit(exit_code) is raised inside the try
\* and caught by `except Exception`, as is FileNotFoundError.
CliExitCode(f) == IF f.pc = "returned" /\ f.code = 0 THEN 0 ELSE 1

Top == proc.frames[Len(proc.frames)]

SetTop(f) == [proc.frames EXCEPT ![Len(proc.frames)] = f]

Start(op) ==
    /\ Top.pc = "start"
    /\ Top.op = op
    /\ LET d == Dispatch(Top, proc.world)
           seen == [Top EXCEPT !.wrote = d.wrote]
           writes == proc.writes + (IF d.wrote THEN 1 ELSE 0)
       IN  IF d.exc # ""
           THEN proc' = [proc EXCEPT !.frames = SetTop([seen EXCEPT !.pc = "raised",
                                                                   !.exc = d.exc]),
                                     !.writes = writes]
           ELSE /\ d.launch = "uv run mkapidocs" => Len(proc.frames) < MaxProcs
                /\ proc' = [proc EXCEPT
                      !.frames = IF d.launch = "uv run mkapidocs"
                                 THEN Append(SetTop([seen EXCEPT !.pc = "waiting",
                                                                 !.child = d.launch]),
                                             Frame(op, d.flag))
                                 ELSE SetTop([seen EXCEPT !.pc = "waiting",
                                                          !.child = d.launch]),
                      !.launches = Append(@, [by |-> Len(proc.frames), cmd |-> d.launch,
                                              internal |-> d.flag,
                                              launcher_internal |-> Top.internal]),
                      !.writes = writes]
    /\ UNCHANGED <<file, tmpl, log, ci, ciLog, call, layout, loads, pyproject, repo,
                 gitignore>>

BuildDocs == Start("build")

ServeDocs == Start("serve")

\* mkdocs or uvx ends with an exit code.
ChildExits ==
    /\ Top.pc = "waiting"
    /\ Top.child \in {"mkdocs", "uvx"}
    /\ \E c \in ExitCodes :
          proc' = [proc EXCEPT !.frames = SetTop([Top EXCEPT !.pc = "returned",
                                                             !.childCode = c,
                                                             !.code = ReturnCode(c)])]
    /\ UNCHANGED <<file, tmpl, log, ci, ciLog, call, layout, loads, pyproject, repo,
                 gitignore>>

\* The nested mkapidocs command ends; its parent gets its exit code.
MkapidocsExits ==
    /\ Len(proc.frames) >= 2
    /\ Top.pc \in {"returned", "raised"}
    /\ LET n == Len(proc.frames)
           c == CliExitCode(Top)
           parent == proc.frames[n - 1]
       IN  proc' = [proc EXCEPT !.frames =
                       Append(SubSeq(proc.frames, 1, n - 2),
                              [parent EXCEPT !.pc = "returned", !.childCode = c,
                                             !.code = ReturnCode(c)])]
    /\ UNCHANGED <<file, tmpl, log, ci, ciLog, call, layout, loads, pyproject, repo,
                 gitignore>>

\* Ctrl+C while the outermost process waits in subprocess.run: serve_docs
\* returns 0, build_docs lets KeyboardInterrupt through.
KeyboardInterrupt ==
    /\ proc.frames[1].pc = "waiting"
    /\ LET f == proc.frames[1]
       IN  proc' = [proc EXCEPT !.frames =
                       <<IF f.op = "serve"
                         THEN [f EXCEPT !.pc = "returned", !.interrupted = TRUE, !.code = 0]
                         ELSE [f EXCEPT !.pc = "raised", !.interrupted = TRUE,
                                        !.exc = "KeyboardInterrupt"]>>]
    /\ UNCHANGED <<file, tmpl, log, ci, ciLog, call, layout, loads, pyproject, repo,
                 gitignore>>

Worlds ==
    [yml : BOOLEAN, inTarget : BOOLEAN, uv : BOOLEAN, mkdocs : BOOLEAN, uvx : BOOLEAN]

NoProc ==
    [world |-> [yml |-> FALSE, inTarget |-> FALSE, uv |-> FALSE, mkdocs |-> FALSE,
                uvx |-> FALSE],
     frames |-> <<>>, launches |-> <<>>, writes |-> 0]

ProcStarts ==
    {[NoProc EXCEPT !.world = w, !.frames = <<Frame(op, internal)>>] :
        w \in Worlds, op \in {"build", "serve"}, internal \in BOOLEAN}

(***************************************************************************)
(* The setup steps that create files: create_gitlab_ci, create_index_page,  *)
(* create_supporting_docs.  repo = [ci, pages, index, install, log].        *)
(***************************************************************************)
MaxSetupSteps == 3

PagesPath == ".gitlab/workflows/pages.gitlab-ci.yml"

OtherPath == ".gitlab/workflows/other.yml"

\* include_entry of create_gitlab_ci.
PagesInclude == MkMap(<<<<K_local, Str(PagesPath)>>>>)

\* The contents of the generated files, and a content the user wrote.
GITLAB_CI_PAGES_TEMPLATE == <<"pages workflow">>

INDEX_MD_TEMPLATE == <<"rendered index">>

INSTALL_MD_TEMPLATE == <<"rendered install">>

UserText == <<"user text">>

\* GitLabCIConfig.load: "raise" for text the parser rejects, "none" for a
\* missing file and for a root that is not a mapping, else the mapping.
GitLabCIConfigLoad(f) ==
    LET raw == RoundTripLoad(f.ev)
    IN  IF ~f.exists THEN [what |-> "none", doc |-> Null]
        ELSE IF ~raw.ok THEN [what |-> "raise", doc |-> Null]
        ELSE IF ~IsMap(raw.doc) THEN [what |-> "none", doc |-> Null]
        ELSE [what |-> "config", doc |-> raw.doc]

\* GitLabCIConfig.include_list: the include value as a list.
include_list(doc) ==
    LET v == MapGet(doc, K_include)
    IN  CASE v.t = "null" -> <<>>
          [] v.t = "seq" -> v.vs
          [] OTHER -> <<v>>

\* _check_existing_gitlab_ci: YAMLError and OSError are suppressed.
CheckExistingGitlabCi(f) ==
    LET c == GitLabCIConfigLoad(f)
    IN  /\ c.what = "config"
        /\ \E i \in DOMAIN include_list(c.doc) :
              LET inc == include_list(c.doc)[i]
              IN  \/ IsMap(inc) /\ HasKey(inc, K_local)
                                /\ PyEq(MapGet(inc, K_local), Str(PagesPath))
                  \/ inc.t = "str" /\ inc.s = PagesPath

K_deploy == "deploy"

\* The stages list with the deploy stage in it.
EnsureDeployStage(doc) ==
    LET st == MapGet(doc, K_stages)
    IN  CASE st.t = "null" -> MapSet(doc, K_stages, SeqNode(<<Str(K_deploy)>>))
          [] st.t = "seq" /\ ~(\E i \in DOMAIN st.vs : PyEq(st.vs[i], Str(K_deploy)))
                -> MapSet(doc, K_stages, SeqNode(Append(st.vs, Str(K_deploy))))
          [] OTHER -> doc

\* GitLabCIConfig.add_include_and_save: the list append of
\* append_to_yaml_list under `include`, and the deploy stage.
AddIncludeAndSave(f, entry) ==
    LET r == AppendToYamlList(f, K_include, entry)
    IN  IF r.result # "true" THEN r
        ELSE [result |-> "true",
              text |-> Dump(EnsureDeployStage(RoundTripLoad(r.text).doc))]

\* The events of "include:\n  - local: .gitlab/workflows/pages.gitlab-ci.yml\n".
IncludeBlock ==
    <<KeyEv(K_include), Ev("ss")>> \o Dump(PagesInclude) \o <<Ev("se")>>

\* initial_content of create_gitlab_ci.
InitialContent == <<Ev("ms")>> \o IncludeBlock \o <<Ev("me")>>

\* f.write("\ninclude:\n  - local: ...\n") in append mode: the block is a
\* further key of a block mapping the text ends with, the whole document
\* after an empty text, and after any other text it follows that text.
AppendIncludeText(text) ==
    IF text = <<>> THEN InitialContent
    ELSE IF RoundTripLoad(text).ok /\ IsMap(RoundTripLoad(text).doc)
         THEN SubSeq(text, 1, Len(text) - 1) \o IncludeBlock \o <<Ev("me")>>
         ELSE text \o IncludeBlock

\* .gitlab-ci.yml after create_gitlab_ci.
GitlabCiAfter(f) ==
    IF CheckExistingGitlabCi(f) THEN f
    ELSE IF f.exists
    THEN LET r == AddIncludeAndSave(f, PagesInclude)
         IN  IF r.result = "true" THEN FileOf(r.text)
             ELSE FileOf(AppendIncludeText(f.ev))
    ELSE FileOf(InitialContent)

\* Mutant: the file is written whether or not it exists.
WriteIfMissingAlways(f, content) == FileOf(content)

\* `if not path.exists(): path.write_text(content)`.
WriteIfMissing(f, content) == IF f.exists THEN f ELSE FileOf(content)

Files(r) == [ci |-> r.ci, pages |-> r.pages, index |-> r.index, install |-> r.install]

SetupStep(op, after) ==
    /\ Len(repo.log) < MaxSetupSteps
    /\ repo' = [ci |-> after.ci, pages |-> after.pages, index |-> after.index,
                install |-> after.install,
                log |-> Append(repo.log, [op |-> op, before |-> Files(repo),
                                          after |-> after])]
    /\ UNCHANGED <<file, tmpl, log, ci, ciLog, call, layout, loads, pyproject, proc,
                   gitignore>>

CreateGitlabCi ==
    SetupStep("create_gitlab_ci",
              [Files(repo) EXCEPT !.pages = WriteIfMissing(repo.pages, GITLAB_CI_PAGES_TEMPLATE),
                                  !.ci = GitlabCiAfter(repo.ci)])

CreateIndexPage ==
    SetupStep("create_index_page",
              [Files(repo) EXCEPT !.index = WriteIfMissing(repo.index, INDEX_MD_TEMPLATE)])

CreateSupportingDocs ==
    SetupStep("create_supporting_docs",
              [Files(repo) EXCEPT !.install = WriteIfMissing(repo.install, INSTALL_MD_TEMPLATE)])

SetupIncludes ==
    {Absent, Null, Str(OtherPath), Str(PagesPath),
     MkMap(<<<<K_local, Str(OtherPath)>>>>), PagesInclude,
     SeqNode(<<MkMap(<<<<K_local, Str(OtherPath)>>>>)>>),
     SeqNode(<<MkMap(<<<<K_local, Str(OtherPath)>>>>), PagesInclude>>),
     SeqNode(<<Str(PagesPath)>>)}

SetupCiDocs ==
    {MkMap(<<<<K_stages, st>>, <<K_include, inc>>>>) :
        st \in {Absent, SeqNode(<<Str("test")>>), SeqNode(<<Str("test"), Str(K_deploy)>>)},
        inc \in SetupIncludes}

SetupCiFiles ==
    {FileOf(Dump(d)) : d \in SetupCiDocs}
        \cup {FileOf(x) : x \in NonMappingTexts}
        \cup {NoFile, FileOf(MalformedText)}

UserFiles == {NoFile, FileOf(UserText)}

NoRepo == [ci |-> NoFile, pages |-> NoFile, index |-> NoFile, install |-> NoFile,
           log |-> <<>>]

RepoStarts ==
    {[ci |-> c, pages |-> p, index |-> x, install |-> i, log |-> <<>>] :
        c \in SetupCiFiles, p \in UserFiles, x \in UserFiles, i \in UserFiles}

(***************************************************************************)
(* update_gitignore.  A line is a tuple of tokens (" ", "/" and words); a   *)
(* content is a tuple of lines and line breaks, no two lines in a row.      *)
(***************************************************************************)
MaxGitignoreCalls == 2

MaxGitignoreLines == 2

\* The line break, a line of its own kind.
NL == <<"\n">>

E_site == <<"/", "site", "/">>

E_public == <<"/", "public", "/">>

E_mkdocs_cache == <<".mkdocs_cache", "/">>

E_generated == <<"docs", "/", "generated", "/">>

Header == <<"#", " ", "MkDocs documentation">>

RECURSIVE LStrip(_, _)
\* str.lstrip(chars) for a one-character chars.
LStrip(line, ch) ==
    IF line # <<>> /\ Head(line) = ch THEN LStrip(Tail(line), ch) ELSE line

RECURSIVE RStrip(_, _)
RStrip(line, ch) ==
    IF line # <<>> /\ line[Len(line)] = ch
    THEN RStrip(SubSeq(line, 1, Len(line) - 1), ch) ELSE line

\* str.strip()
Strip(line) == RStrip(LStrip(line, " "), " ")

RECURSIVE SplitFrom(_, _, _)
\* str.splitlines(): cur is the line being read.
SplitFrom(content, i, cur) ==
    IF i > Len(content) THEN (IF cur = <<>> THEN <<>> ELSE <<cur>>)
    ELSE IF content[i] = NL THEN <<cur>> \o SplitFrom(content, i + 1, <<>>)
    ELSE SplitFrom(content, i + 1, content[i])

SplitLines(content) == SplitFrom(content, 1, <<>>)

\* Mutant: only the entry as it is spelled counts as present.
IsPresentExact(entry, existing_lines) ==
    \E i \in DOMAIN existing_lines : Strip(existing_lines[i]) = entry

\* is_present of update_gitignore.
IsPresent(entry, existing_lines) ==
    LET normalized_entry == LStrip(entry, "/")
    IN  \E i \in DOMAIN existing_lines :
           \/ Strip(existing_lines[i]) = entry
           \/ Strip(existing_lines[i]) = normalized_entry
           \/ Strip(existing_lines[i]) = <<"/">> \o normalized_entry

RECURSIVE EntryLines(_)
EntryLines(entries) ==
    IF entries = <<>> THEN <<>> ELSE <<Head(entries), NL>> \o EntryLines(Tail(entries))

\* The file after update_gitignore(repo_path, provider, include_generated).
update_gitignore(f, provider, include_generated) ==
    LET build_dir == IF provider = "gitlab" THEN E_public ELSE E_site
        entries_to_add == <<build_dir, E_mkdocs_cache>>
                             \o (IF include_generated THEN <<E_generated>> ELSE <<>>)
        existing_content == IF f.exists THEN f.content ELSE <<>>
        existing_lines == SplitLines(existing_content)
        missing_entries == SelectSeq(entries_to_add,
                                     LAMBDA e : ~IsPresent(e, existing_lines))
        ended == IF existing_content # <<>> /\ existing_content[Len(existing_content)] # NL
                 THEN Append(existing_content, NL) ELSE existing_content
        headed == IF ended # <<>> THEN ended \o <<NL, Header, NL>> ELSE <<Header, NL>>
    IN  IF missing_entries # <<>>
        THEN [exists |-> TRUE, content |-> headed \o EntryLines(missing_entries)]
        ELSE f

UpdateGitignore ==
    /\ Len(gitignore.log) < MaxGitignoreCalls
    /\ \E provider \in {"github", "gitlab"}, include_generated \in BOOLEAN :
          LET after == update_gitignore(gitignore.file, provider, include_generated)
          IN  gitignore' = [file |-> after,
                            log |-> Append(gitignore.log,
                                           [provider |-> provider,
                                            include_generated |-> include_generated,
                                            before |-> gitignore.file,
                                            after |-> after])]
    /\ UNCHANGED <<file, tmpl, log, ci, ciLog, call, layout, loads, pyproject, proc, repo>>

\* Lines a .gitignore may hold before the first call.
GitignoreLines ==
    {E_site, <<"site", "/">>, <<" ", "site", "/", " ">>, <<"site">>, E_public,
     E_mkdocs_cache, <<"/">> \o E_mkdocs_cache, E_generated, <<"*.pyc">>, Header}

RECURSIVE ContentsOf(_)
\* The contents of up to n lines, each ended by a line break.
ContentsOf(n) ==
    IF n = 0 THEN {<<>>}
    ELSE LET shorter == ContentsOf(n - 1)
         IN  shorter \cup {c \o <<l, NL>> : c \in shorter, l \in GitignoreLines}
                     \cup {Append(c, NL) : c \in shorter}

\* With and without the line break at the end.
GitignoreContents ==
    ContentsOf(MaxGitignoreLines)
        \cup {SubSeq(c, 1, Len(c) - 1) :
                c \in {d \in ContentsOf(MaxGitignoreLines) :
                          Len(d) >= 2 /\ d[Len(d) - 1] # NL}}

NoGitignore == [file |-> [exists |-> FALSE, content |-> <<>>], log |-> <<>>]

GitignoreStarts ==
    {NoGitignore} \cup {[file |-> [exists |-> TRUE, content |-> c], log |-> <<>>] :
                           c \in GitignoreContents}

(***************************************************************************)
(* Specifications.                                                          *)
(*   Spec       : runs of create_mkdocs_config on one mkdocs.yml            *)
(*   SpecAppend : calls of append_to_yaml_list on one .gitlab-ci.yml        *)
(*   SpecCall   : one direct call of _merge_yaml_in_place and of            *)
(*                _merge_yaml_configs with the same arguments               *)
(*   SpecIndent : one load/serialize pass over a text in a given style      *)
(*   SpecLoad   : loads of one .gitlab-ci.yml by the three loaders          *)
(*   SpecRuff   : calls of update_ruff_config on one pyproject.toml         *)
(*   SpecBuild  : one build_docs / serve_docs run and its child processes   *)
(*   SpecSetup  : create_gitlab_ci, create_index_page and                   *)
(*                create_supporting_docs on one repository                  *)
(*   SpecGitignore : calls of update_gitignore on one .gitignore            *)
(***************************************************************************)
Init ==
    /\ \E p \in StartPairs : file = p[1] /\ tmpl = p[2]
    /\ log = <<>>
    /\ ci = NoFile
    /\ ciLog = <<>>
    /\ call = NoCall
    /\ layout = NoLayout
    /\ loads = <<>>
    /\ pyproject = NoPyproject
    /\ proc = NoProc
    /\ repo = NoRepo
    /\ gitignore = NoGitignore

Next == CreateMkdocsConfig

Spec == Init /\ [][Next]_vars

InitAppend ==
    /\ file = NoFile
    /\ tmpl = <<>>
    /\ log = <<>>
    /\ ci \in CiFiles
    /\ ciLog = <<>>
    /\ call = NoCall
    /\ layout = NoLayout
    /\ loads = <<>>
    /\ pyproject = NoPyproject
    /\ proc = NoProc
    /\ repo = NoRepo
    /\ gitignore = NoGitignore

NextAppend == AppendCall

SpecAppend == InitAppend /\ [][NextAppend]_vars

InitCall ==
    /\ file = NoFile
    /\ tmpl = <<>>
    /\ log = <<>>
    /\ ci = NoFile
    /\ ciLog = <<>>
    /\ call = NoCall
    /\ layout = NoLayout
    /\ loads = <<>>
    /\ pyproject = NoPyproject
    /\ proc = NoProc
    /\ repo = NoRepo
    /\ gitignore = NoGitignore

NextCall == MergeCall

SpecCall == InitCall /\ [][NextCall]_vars

InitIndent ==
    /\ file = NoFile
    /\ tmpl = <<>>
    /\ log = <<>>
    /\ ci = NoFile
    /\ ciLog = <<>>
    /\ call = NoCall
    /\ layout \in LayoutStarts
    /\ loads = <<>>
    /\ pyproject = NoPyproject
    /\ proc = NoProc
    /\ repo = NoRepo
    /\ gitignore = NoGitignore

NextIndent == MergeKeepsLayout

SpecIndent == InitIndent /\ [][NextIndent]_vars


InitLoad ==
    /\ file = NoFile
    /\ tmpl = <<>>
    /\ log = <<>>
    /\ ci \in CiFiles
    /\ ciLog = <<>>
    /\ call = NoCall
    /\ layout = NoLayout
    /\ loads = <<>>
    /\ pyproject = NoPyproject
    /\ proc = NoProc
    /\ repo = NoRepo
    /\ gitignore = NoGitignore

NextLoad == LoadPreserveFormat \/ LoadForMerge \/ LoadForAppend

SpecLoad == InitLoad /\ [][NextLoad]_vars


InitRuff ==
    /\ file = NoFile
    /\ tmpl = <<>>
    /\ log = <<>>
    /\ ci = NoFile
    /\ ciLog = <<>>
    /\ call = NoCall
    /\ layout = NoLayout
    /\ loads = <<>>
    /\ pyproject \in {[NoPyproject EXCEPT !.first = c, !.cfg = c] : c \in RuffConfigs}
    /\ proc = NoProc
    /\ repo = NoRepo
    /\ gitignore = NoGitignore

NextRuff == UpdateRuffConfig \/ CliUpdateRuffConfig

SpecRuff == InitRuff /\ [][NextRuff]_vars


InitBuild ==
    /\ file = NoFile
    /\ tmpl = <<>>
    /\ log = <<>>
    /\ ci = NoFile
    /\ ciLog = <<>>
    /\ call = NoCall
    /\ layout = NoLayout
    /\ loads = <<>>
    /\ pyproject = NoPyproject
    /\ proc \in ProcStarts
    /\ repo = NoRepo
    /\ gitignore = NoGitignore

NextBuild == BuildDocs \/ ServeDocs \/ ChildExits \/ MkapidocsExits \/ KeyboardInterrupt

SpecBuild == InitBuild /\ [][NextBuild]_vars


InitSetup ==
    /\ file = NoFile
    /\ tmpl = <<>>
    /\ log = <<>>
    /\ ci = NoFile
    /\ ciLog = <<>>
    /\ call = NoCall
    /\ layout = NoLayout
    /\ loads = <<>>
    /\ pyproject = NoPyproject
    /\ proc = NoProc
    /\ repo \in RepoStarts
    /\ gitignore = NoGitignore

NextSetup == CreateGitlabCi \/ CreateIndexPage \/ CreateSupportingDocs

SpecSetup == InitSetup /\ [][NextSetup]_vars


InitGitignore ==
    /\ file = NoFile
    /\ tmpl = <<>>
    /\ log = <<>>
    /\ ci = NoFile
    /\ ciLog = <<>>
    /\ call = NoCall
    /\ layout = NoLayout
    /\ loads = <<>>
    /\ pyproject = NoPyproject
    /\ proc = NoProc
    /\ repo = NoRepo
    /\ gitignore \in GitignoreStarts

NextGitignore == UpdateGitignore

SpecGitignore == InitGitignore /\ [][NextGitignore]_vars

(***************************************************************************)
(* Vocabulary of the properties.                                            *)
(***************************************************************************)
Last(q) == q[Len(q)]

\* The runs of create_mkdocs_config that merged into an existing file.
MergedRuns == {i \in DOMAIN log : log[i].out = "merged"}

RECURSIVE PathsOf(_)
\* The key sequences of a document: <<k1, ..., kn>> is one when k1 is a key
\* of the root mapping, k2 a key of the mapping under k1, and so on.
PathsOf(n) ==
    IF ~IsMap(n) THEN {}
    ELSE UNION {{<<n.ks[i]>>} \cup {<<n.ks[i]>> \o q : q \in PathsOf(n.vs[i])} :
                    i \in DOMAIN n.ks}

RECURSIVE ValueAt(_, _)
\* The value a document holds at one of its key sequences.
ValueAt(n, q) ==
    IF q = <<>> THEN n ELSE ValueAt(n.vs[KeyIndex(n, Head(q))], Tail(q))

RECURSIVE DottedPath(_)
\* The dot-separated key path of a key sequence.
DottedPath(q) ==
    IF Len(q) = 1 THEN q[1] ELSE q[1] \o <<".">> \o DottedPath(Tail(q))

HasRecord(ch, path, act) ==
    \E i \in DOMAIN ch : ch[i].key_path = path /\ ch[i].action = act

\* The pairs of mappings the merge of E and T is applied to: the roots, and
\* every pair of mappings found under the same not-owned key sequence of E
\* and of T (the recursive calls).
MergedAt(E, T, owned) ==
    {<<>>} \cup {q \in PathsOf(E) \cap PathsOf(T) :
                    /\ IsMap(ValueAt(E, q))
                    /\ IsMap(ValueAt(T, q))
                    /\ ~IsTemplateOwned(DottedPath(q), owned)}

Owned(r, q) == IsTemplateOwned(DottedPath(q), TemplateOwnedKeys(r.T))

(***************************************************************************)
(* C1 (as claimed): when two runs in a row merge the same template into     *)
(* the file, the second merge's change list holds only `preserved` records  *)
(* and the file text after the second run is the text after the first.      *)
(* The code emits `added` again for a template key whose value is null.     *)
(***************************************************************************)
C1_SecondMergeIsNoOp ==
    (Len(log) >= 2 /\ log[1].out = "merged" /\ log[2].out = "merged")
        => /\ \A i \in DOMAIN log[2].ch : log[2].ch[i].action = "preserved"
           /\ log[2].after = log[1].after

(***************************************************************************)
(* C2 (as claimed): after a merge, every template-owned key path of the     *)
(* template holds the template's value in the merged document, whatever     *)
(* the existing document held there or above it. The code keeps a scalar    *)
(* or sequence that the existing document holds above an owned path.        *)
(***************************************************************************)
C2_OwnedPathTakesTemplateValue ==
    \A i \in MergedRuns :
        \A q \in PathsOf(log[i].T) :
            Owned(log[i], q)
                => /\ q \in PathsOf(log[i].M)
                   /\ PyEq(ValueAt(log[i].M, q), ValueAt(log[i].T, q))

\* The key sequences that the existing document and the template of run r
\* both have and that are not template-owned. (Every mapping above such a
\* key is merged recursively: it is a mapping in both and not owned.)
SharedFreeKeys(r) == {q \in PathsOf(r.E) \cap PathsOf(r.T) : ~Owned(r, q)}

UserValue(r, q) ==
    /\ ValueAt(r.E, q).t # "null"
    /\ ~PyEq(ValueAt(r.E, q), ValueAt(r.T, q))

BothMappings(r, q) == IsMap(ValueAt(r.E, q)) /\ IsMap(ValueAt(r.T, q))

KeptWithRecord(r, q) ==
    /\ q \in PathsOf(r.M)
    /\ ValueAt(r.M, q) = ValueAt(r.E, q)
    /\ HasRecord(r.ch, DottedPath(q), "preserved")

(***************************************************************************)
(* C3 (as claimed): every not-owned key that holds a non-null value in E    *)
(* and a different value in T holds E's value after the merge, and the      *)
(* change list has a `preserved` record for its path. Fails when both       *)
(* values are mappings: they are merged key by key.                         *)
(***************************************************************************)
C3_UserValueKept ==
    \A i \in MergedRuns :
        \A q \in SharedFreeKeys(log[i]) :
            UserValue(log[i], q) => KeptWithRecord(log[i], q)

(***************************************************************************)
(* C3 (amended): every not-owned key that holds a non-null value in E and   *)
(* a different value in T, the two not both being mappings, holds E's       *)
(* value after the merge, and the change list has a `preserved` record      *)
(* for its path.                                                            *)
(***************************************************************************)
C3_UserScalarKept ==
    \A i \in MergedRuns :
        \A q \in SharedFreeKeys(log[i]) :
            (UserValue(log[i], q) /\ ~BothMappings(log[i], q))
                => KeptWithRecord(log[i], q)

C3_Witness ==
    \E i \in MergedRuns :
        \E q \in SharedFreeKeys(log[i]) :
            /\ Len(q) = 2
            /\ UserValue(log[i], q)
            /\ ~BothMappings(log[i], q)
            /\ IsMap(ValueAt(log[i].T, q))
            /\ KeptWithRecord(log[i], q)

\* The keys of the mapping at q in document a that the mapping at q in
\* document b does not have, as key sequences.
OnlyIn(a, b, q) ==
    {Append(q, ValueAt(a, q).ks[j]) : j \in
        {j \in DOMAIN ValueAt(a, q).ks : ~HasKey(ValueAt(b, q), ValueAt(a, q).ks[j])}}

MergedPairs(r) == MergedAt(r.E, r.T, TemplateOwnedKeys(r.T))

(***************************************************************************)
(* C4: in every pair of mappings that is merged (the roots and the          *)
(* recursively merged nested mappings), every key that E has and T does     *)
(* not have is still there after the merge with the value it had, and the   *)
(* change list has a `preserved` record for its path.                       *)
(***************************************************************************)
C4_OrphanKept ==
    \A i \in MergedRuns :
        \A q \in MergedPairs(log[i]) :
            \A p \in OnlyIn(log[i].E, log[i].T, q) : KeptWithRecord(log[i], p)

C4_Witness ==
    \E i \in MergedRuns :
        \E q \in MergedPairs(log[i]) :
            /\ q # <<>>
            /\ Len(log[i].T.ks) > 1
            /\ \E p \in OnlyIn(log[i].E, log[i].T, q) : KeptWithRecord(log[i], p)
            /\ \E p \in OnlyIn(log[i].E, log[i].T, <<>>) : KeptWithRecord(log[i], p)

(***************************************************************************)
(* C5: in every pair of mappings that is merged, every not-owned key that   *)
(* T has and E does not have is in the merged document with the            *)
(* template's value, and the change list has an `added` record for its      *)
(* path.                                                                    *)
(***************************************************************************)
C5_NewKeyAdded ==
    \A i \in MergedRuns :
        \A q \in MergedPairs(log[i]) :
            \A p \in OnlyIn(log[i].T, log[i].E, q) :
                ~Owned(log[i], p)
                    => /\ p \in PathsOf(log[i].M)
                       /\ PyEq(ValueAt(log[i].M, p), ValueAt(log[i].T, p))
                       /\ HasRecord(log[i].ch, DottedPath(p), "added")

C5_Witness ==
    \E i \in MergedRuns :
        \E q \in MergedPairs(log[i]) :
            /\ q # <<>>
            /\ \E p \in OnlyIn(log[i].T, log[i].E, q) :
                  /\ ~Owned(log[i], p)
                  /\ IsMap(ValueAt(log[i].T, p))
                  /\ HasRecord(log[i].ch, DottedPath(p), "added")
                  /\ ValueAt(log[i].M, p) = ValueAt(log[i].T, p)

Placeholder == "__PYTHON_TAG_PLACEHOLDER__"

\* The rendered template as a round-trip loader reads it: its tagged
\* scalars are still tagged scalars.
Rendered == RoundTripLoad(tmpl).doc

(***************************************************************************)
(* C6 (as claimed): a !!python/name: scalar of the existing document or of  *)
(* the rendered template goes through load, merge and serialize with its    *)
(* tag and payload: the written text holds no placeholder string, and a     *)
(* template-owned value of the merged document equals the rendered          *)
(* template's value. The code parses the template with every tag replaced   *)
(* by "__PYTHON_TAG_PLACEHOLDER__" and never puts the tag back.             *)
(***************************************************************************)
C6_TagsCarriedThrough ==
    \A i \in MergedRuns :
        /\ \A j \in DOMAIN log[i].after.ev : log[i].after.ev[j].s # Placeholder
        /\ \A q \in PathsOf(log[i].T) \cap PathsOf(log[i].M) :
              Owned(log[i], q)
                  => PyEq(ValueAt(log[i].M, q), ValueAt(Rendered, q))

Max(S) == CHOOSE m \in S : \A x \in S : x <= m

RECURSIVE NestDepth(_)
\* How many mappings are nested below the root mapping of a document.
NestDepth(n) ==
    Max({0} \cup {1 + NestDepth(n.vs[i]) : i \in {j \in DOMAIN n.ks : IsMap(n.vs[j])}})

RECURSIVE CommonDepth(_, _, _, _)
\* How many levels deep the mappings e and t (found under the key path
\* prefix) are nested along one and the same run of not-owned keys.
CommonDepth(e, t, owned, prefix) ==
    Max({0} \cup
        {1 + CommonDepth(MapGet(e, t.ks[i]), t.vs[i], owned, JoinPath(prefix, t.ks[i])) :
            i \in {j \in DOMAIN t.ks :
                      /\ IsMap(t.vs[j])
                      /\ IsMap(MapGet(e, t.ks[j]))
                      /\ ~IsTemplateOwned(JoinPath(prefix, t.ks[j]), owned)}})

(***************************************************************************)
(* C8 (as claimed): merging an existing document whose mappings are nested  *)
(* deeper than max_depth fails with the structural error. Fails when the    *)
(* template is shallower (or owns the deep part): nothing recurses that     *)
(* far and the merge succeeds.                                              *)
(***************************************************************************)
C8_DeepDocumentFails ==
    (call.pc = "done" /\ NestDepth(call.E) > call.maxDepth) => call.res.err

(***************************************************************************)
(* C8 (amended): merging fails with the structural error when the existing  *)
(* document and the template are both mappings along one run of not-owned   *)
(* keys for more than max_depth levels, which is when the merge would       *)
(* recurse deeper than max_depth.                                           *)
(***************************************************************************)
C8_CommonDepthFails ==
    (call.pc = "done" /\ CommonDepth(call.E, call.T, call.owned, <<>>) > call.maxDepth)
        => call.res.err

C8_Witness ==
    /\ call.pc = "done"
    /\ call.maxDepth = MaxDepthArg
    /\ CommonDepth(call.E, call.T, call.owned, <<>>) = call.maxDepth + 1
    /\ call.res.err

\* The last append_to_yaml_list call, and the documents before and after it.
LastAppend == Last(ciLog)

DocBefore == RoundTripLoad(LastAppend.before.ev)

DocAfter == RoundTripLoad(ci.ev)

MappingRootBefore == LastAppend.before.exists /\ DocBefore.ok /\ IsMap(DocBefore.doc)

OldValue == MapGet(DocBefore.doc, LastAppend.key)

OthersKept ==
    \A j \in DOMAIN DocBefore.doc.ks :
        DocBefore.doc.ks[j] # LastAppend.key
            => /\ HasKey(DocAfter.doc, DocBefore.doc.ks[j])
               /\ DocAfter.doc.vs[KeyIndex(DocAfter.doc, DocBefore.doc.ks[j])]
                    = DocBefore.doc.vs[j]

Rewritten(expected) ==
    /\ LastAppend.result = "true"
    /\ ci.exists
    /\ DocAfter.ok
    /\ IsMap(DocAfter.doc)
    /\ HasKey(DocAfter.doc, LastAppend.key)
    /\ MapGet(DocAfter.doc, LastAppend.key) = expected
    /\ OthersKept

(***************************************************************************)
(* C9 (as claimed): on a document whose root is a mapping the call returns  *)
(* true and rewrites the file with document[key] = [entry] if the key was   *)
(* absent, s ++ [entry] if it held a sequence s, [v, entry] if it held any  *)
(* other value v; the other top-level keys keep their values. Fails for a   *)
(* key that holds null: the code writes [entry], not [null, entry].         *)
(***************************************************************************)
C9_AppendResult ==
    (ciLog # <<>> /\ MappingRootBefore)
        => Rewritten(IF ~HasKey(DocBefore.doc, LastAppend.key)
                     THEN SeqNode(<<LastAppend.value>>)
                     ELSE IF IsSeq(OldValue)
                     THEN SeqNode(Append(OldValue.vs, LastAppend.value))
                     ELSE SeqNode(<<OldValue, LastAppend.value>>))

(***************************************************************************)
(* C9 (amended): on a document whose root is a mapping the call returns     *)
(* true and rewrites the file with document[key] = [entry] if the key was   *)
(* absent or held null, s ++ [entry] if it held a sequence s, [v, entry]    *)
(* if it held any other value v; the other top-level keys keep their        *)
(* values.                                                                  *)
(***************************************************************************)
C9_AppendResultNullAsAbsent ==
    (ciLog # <<>> /\ MappingRootBefore)
        => Rewritten(IF OldValue.t = "null"
                     THEN SeqNode(<<LastAppend.value>>)
                     ELSE IF IsSeq(OldValue)
                     THEN SeqNode(Append(OldValue.vs, LastAppend.value))
                     ELSE SeqNode(<<OldValue, LastAppend.value>>))

C9_Witness ==
    /\ Len(ciLog) = 2
    /\ MappingRootBefore
    /\ IsSeq(OldValue)
    /\ Len(OldValue.vs) = 3
    /\ IsMap(OldValue.vs[2])
    /\ LastAppend.result = "true"
    /\ Len(MapGet(DocAfter.doc, LastAppend.key).vs) = 4

(***************************************************************************)
(* C10: when the root of the document is not a mapping the call returns     *)
(* false and the file is what it was; when the call returns true the file   *)
(* is a mapping whose value under the key is a sequence ending with the     *)
(* entry.                                                                   *)
(***************************************************************************)
C10_NonMappingRoot ==
    ciLog # <<>>
        => /\ (LastAppend.before.exists /\ DocBefore.ok /\ ~IsMap(DocBefore.doc))
                => (LastAppend.result = "false" /\ ci = LastAppend.before)
           /\ LastAppend.result = "true"
                => /\ ci.exists
                   /\ DocAfter.ok
                   /\ IsMap(DocAfter.doc)
                   /\ IsSeq(MapGet(DocAfter.doc, LastAppend.key))
                   /\ Last(MapGet(DocAfter.doc, LastAppend.key).vs) = LastAppend.value

C10_Witness ==
    /\ ciLog # <<>>
    /\ LastAppend.before.exists
    /\ DocBefore.ok
    /\ IsSeq(DocBefore.doc)
    /\ LastAppend.result = "false"
    /\ ci = LastAppend.before

(***************************************************************************)
(* C11  Indentation round trip.  A document written with 4-space mapping    *)
(* indent and dash offset 2, holding a sequence, is detected as mapping     *)
(* indent 4 with dash offset 2, and the text written after a merge that     *)
(* changes nothing has the lines of the text that was read.                 *)
(***************************************************************************)
HasDash(lines) == \E i \in 1..Len(lines) : lines[i].kind = "item"

FourSpaceOffsetTwo ==
    /\ layout.pc = "done"
    /\ layout.written = Profile(4, 4, 2)
    /\ HasDash(layout.lines)

C11_IndentationRoundTrip ==
    FourSpaceOffsetTwo =>
        /\ layout.applied.mapping = 4
        /\ layout.applied.offset = 2
        /\ layout.out = layout.lines

(***************************************************************************)
(* C12  Template-owned set.  The owned key paths a merge of mkdocs.yml      *)
(* uses are the ten fixed paths, plugins.recently-updated among them, plus  *)
(* site_url exactly when the template's site_url is non-empty and repo_url  *)
(* exactly when the template's repo_url is non-empty.                       *)
(***************************************************************************)
P_recently_updated ==
    <<"p", "l", "u", "g", "i", "n", "s", ".", "r", "e", "c", "e", "n", "t", "l", "y",
      "-", "u", "p", "d", "a", "t", "e", "d">>

NonEmpty(v) == v.t # "null" /\ ~(v.t = "str" /\ v.s = "")

C12_OwnedSet ==
    \A i \in MergedRuns :
        LET T == log[i].T
        IN  TemplateOwnedKeys(T) =
                {P_gen_files_scripts, P_search, P_mkdocstrings, P_mermaid2, P_termynal,
                 P_literate_nav, P_recently_updated, P_theme_name, P_theme_palette,
                 K_markdown_extensions}
                \cup (IF NonEmpty(MapGet(T, K_site_url)) THEN {K_site_url} ELSE {})
                \cup (IF NonEmpty(MapGet(T, K_repo_url)) THEN {K_repo_url} ELSE {})

(***************************************************************************)
(* C13 (as claimed)  The worked example: merging ScenarioT into ScenarioE   *)
(* with theme.name and plugins.search owned gives theme.name = material     *)
(* with an `updated` record, theme.features unchanged with a `preserved`    *)
(* record, theme.palette from the template with an `added` record,          *)
(* site_name unchanged, and plugins.search present with an `added` record   *)
(* whose key path is plugins.search.                                        *)
(* The code adds the whole plugins mapping under one record for `plugins`.  *)
(***************************************************************************)
ScenarioMerged ==
    /\ call.pc = "done"
    /\ call.E = ScenarioE
    /\ call.T = ScenarioT
    /\ call.owned = ScenarioOwned
    /\ ~call.res.err

ScenarioTheme ==
    LET M == call.res.doc
        ch == call.res.ch
    IN  /\ {<<K_theme, K_palette>>, <<K_plugins, K_search>>} \subseteq PathsOf(M)
        /\ PyEq(ValueAt(M, <<K_theme, K_name>>), Str("material"))
        /\ HasRecord(ch, P_theme_name, "updated")
        /\ ValueAt(M, <<K_theme, K_features>>) = ValueAt(ScenarioE, <<K_theme, K_features>>)
        /\ HasRecord(ch, DottedPath(<<K_theme, K_features>>), "preserved")
        /\ PyEq(ValueAt(M, <<K_theme, K_palette>>), ValueAt(ScenarioT, <<K_theme, K_palette>>))
        /\ HasRecord(ch, P_theme_palette, "added")
        /\ ValueAt(M, <<K_site_name>>) = ValueAt(ScenarioE, <<K_site_name>>)

C13_ScenarioSearchRecord ==
    ScenarioMerged =>
        /\ ScenarioTheme
        /\ HasRecord(call.res.ch, P_search, "added")

(***************************************************************************)
(* C13 (amended)  As above, except that the record for the new plugins      *)
(* mapping is one `added` record whose key path is `plugins`; there is no   *)
(* record for plugins.search.                                               *)
(***************************************************************************)
C13_ScenarioPluginsRecord ==
    ScenarioMerged =>
        /\ ScenarioTheme
        /\ HasRecord(call.res.ch, K_plugins, "added")
        /\ \A i \in DOMAIN call.res.ch : call.res.ch[i].key_path # P_search

C13_Witness ==
    /\ ScenarioMerged
    /\ HasRecord(call.res.ch, K_plugins, "added")
    /\ HasRecord(call.res.ch, P_theme_name, "updated")

(***************************************************************************)
(* C14 (as claimed)  Parse failure is an error.  Every load of a file whose *)
(* text cannot be parsed raises an error that carries the file name and the *)
(* parser's message; no loader answers as it does for a missing or empty    *)
(* file.                                                                    *)
(* load_yaml_preserve_format answers (None, default profile) for it.        *)
(***************************************************************************)
Unparseable(f) == f.exists /\ ~RoundTripLoad(f.ev).ok

RECURSIVE RankSeq(_, _, _)
RankSeq(e, t, q) ==
    IF q = <<>> THEN <<>>
    ELSE LET k == Head(q)
             r == IF HasKey(t, k) THEN KeyIndex(t, k) ELSE Len(t.ks) + KeyIndex(e, k)
         IN  <<r>> \o RankSeq(MapGet(e, k), MapGet(t, k), Tail(q))

LexLess(a, b) ==
    \E k \in 1..(IF Len(a) < Len(b) THEN Len(a) ELSE Len(b)) :
        /\ \A j \in 1..(k - 1) : a[j] = b[j]
        /\ a[k] < b[k]

\* The key sequence of the merged document a record's key path names.
KeysOfRecord(M, rec) == CHOOSE q \in PathsOf(M) : DottedPath(q) = rec.key_path

RecordRank(i) == RankSeq(call.E, call.T, KeysOfRecord(call.res.doc, call.res.ch[i]))

C15_RecordOrder ==
    (call.pc = "done" /\ ~call.res.err) =>
        /\ \A i \in DOMAIN call.res.ch :
              \E q \in PathsOf(call.res.doc) : DottedPath(q) = call.res.ch[i].key_path
        /\ \A i, j \in DOMAIN call.res.ch : i < j => LexLess(RecordRank(i), RecordRank(j))

C15_Witness ==
    /\ call.pc = "done"
    /\ call.E = OrderE
    /\ call.T = OrderT
    /\ call.owned = {}
    /\ ~call.res.err
    /\ [i \in DOMAIN call.res.ch |-> call.res.ch[i].key_path] =
          <<K_site_name, DottedPath(<<K_extra, K_name>>), DottedPath(<<K_extra, K_palette>>),
            DottedPath(<<K_extra, K_x>>), K_theme, K_stages>>

(***************************************************************************)
(* C16 (as claimed)  After one or more calls of update_ruff_config, on any  *)
(* configuration, select holds "DOC" exactly once and "D" exactly once and  *)
(* every rule select held before the first call.                            *)
(* A rule that select held more than once before is not deduplicated.       *)
(***************************************************************************)
Count(items, r) == Cardinality({i \in DOMAIN items : items[i] = r})

\* The rules select held before the first call.
RulesBefore ==
    IF pyproject.first.ruff = "table" /\ pyproject.first.lint = "table"
          /\ pyproject.first.select = "list"
    THEN SelectSeq(pyproject.first.items, LAMBDA x : x.str) ELSE <<>>

Updated == pyproject.calls >= 1 /\ ~pyproject.raised

C16_DocRulesExactlyOnce ==
    Updated =>
        /\ pyproject.cfg.select = "list"
        /\ Count(pyproject.cfg.items, Rule("DOC")) = 1
        /\ Count(pyproject.cfg.items, Rule("D")) = 1
        /\ \A i \in DOMAIN RulesBefore : Contains(pyproject.cfg.items, RulesBefore[i])

(***************************************************************************)
(* C16 (amended)  After one or more calls that return, select holds "DOC"   *)
(* and "D" each as often as before the first call, and once when it did not *)
(* hold them; every rule select held before the first call is still there,  *)
(* as often as before.                                                      *)
(***************************************************************************)
C16_DocRulesAddedOnce ==
    Updated =>
        /\ pyproject.cfg.select = "list"
        /\ \A r \in {Rule("DOC"), Rule("D")} :
              Count(pyproject.cfg.items, r) =
                  (IF Count(RulesBefore, r) = 0 THEN 1 ELSE Count(RulesBefore, r))
        /\ \A i \in DOMAIN RulesBefore :
              Count(pyproject.cfg.items, RulesBefore[i]) >= Count(RulesBefore, RulesBefore[i])

C16_Witness ==
    /\ pyproject.calls = 2
    /\ ~pyproject.raised
    /\ pyproject.first.items = <<Rule("E"), Rule("D")>>
    /\ pyproject.cfg.items = <<Rule("E"), Rule("D"), Rule("DOC")>>

(***************************************************************************)
(* C17  Self-invocation is bounded.  A build_docs / serve_docs running with *)
(* MKAPIDOCS_INTERNAL_CALL=1 never launches `uv run mkapidocs`; every       *)
(* `uv run mkapidocs` child is started with MKAPIDOCS_INTERNAL_CALL=1; so   *)
(* at most two mkapidocs processes are ever nested, and the inner one       *)
(* launches mkdocs or uvx or nothing.                                       *)
(***************************************************************************)
C17_SelfInvocationBounded ==
    /\ \A i \in DOMAIN proc.launches :
          proc.launches[i].cmd = "uv run mkapidocs"
              => /\ ~proc.launches[i].launcher_internal
                 /\ proc.launches[i].internal
    /\ Len(proc.frames) <= 2
    /\ \A i \in DOMAIN proc.frames :
          i >= 2 => /\ proc.frames[i].internal
                    /\ proc.frames[i].child \in {"", "mkdocs", "uvx"}

C17_Witness ==
    /\ Len(proc.frames) = 2
    /\ proc.frames[1].child = "uv run mkapidocs"
    /\ proc.frames[2].pc = "waiting"
    /\ proc.frames[2].child = "mkdocs"

(***************************************************************************)
(* C18  Missing mkdocs.yml is rejected up front.  When the target directory *)
(* has no mkdocs.yml, build_docs and serve_docs raise FileNotFoundError,    *)
(* gen_ref_pages.py is not written and no subprocess is launched.           *)
(***************************************************************************)
C18_MissingMkdocsYml ==
    ~proc.world.yml =>
        /\ proc.writes = 0
        /\ proc.launches = <<>>
        /\ \A i \in DOMAIN proc.frames :
              /\ proc.frames[i].pc \in {"start", "raised"}
              /\ proc.frames[i].pc = "raised"
                    => proc.frames[i].exc = "FileNotFoundError" /\ ~proc.frames[i].wrote

C18_Witness ==
    /\ ~proc.world.yml
    /\ proc.world.uvx
    /\ Len(proc.frames) = 1
    /\ proc.frames[1].pc = "raised"
    /\ proc.frames[1].exc = "FileNotFoundError"

(***************************************************************************)
(* C19  Exit-code propagation.  Whatever the dispatch path (uv run          *)
(* mkapidocs, mkdocs, uvx), a build_docs or serve_docs that returns returns *)
(* the exit code of its child unchanged, except that serve_docs returns 0   *)
(* when the run of the child is interrupted by KeyboardInterrupt.           *)
(***************************************************************************)
C19_ExitCodePropagated ==
    \A i \in DOMAIN proc.frames :
        LET f == proc.frames[i]
        IN  f.pc = "returned" =>
                IF f.interrupted THEN f.op = "serve" /\ f.code = 0
                ELSE f.childCode \in ExitCodes /\ f.code = f.childCode

C19_Witness ==
    /\ Len(proc.frames) = 1
    /\ proc.frames[1].pc = "returned"
    /\ proc.frames[1].child = "uvx"
    /\ ~proc.frames[1].interrupted
    /\ proc.frames[1].code = 2

(***************************************************************************)
(* C20  Re-running setup is a no-op for mkdocs.yml.  When the first run     *)
(* creates the file from the rendered template and the second run merges    *)
(* the same template into it, the second run's change list holds no `added` *)
(* and no `updated` record and the file is what the first run wrote.        *)
(***************************************************************************)
CreatedThenMerged ==
    /\ Len(log) = 2
    /\ log[1].out = "created"
    /\ log[2].out = "merged"

C20_RerunIsNoOp ==
    CreatedThenMerged =>
        /\ \A i \in DOMAIN log[2].ch : log[2].ch[i].action \notin {"added", "updated"}
        /\ log[2].after = log[1].after

(***************************************************************************)
(* C21  Every mutation is reported.  At every merged level, a key that is   *)
(* not itself merged recursively and whose value after the merge differs    *)
(* from its value before, or that the merge inserted, has an `added` or an  *)
(* `updated` record under its key path; a key with a `preserved` record is  *)
(* unchanged.  (The changes below a recursively merged key are those of     *)
(* the keys of the nested level.)                                           *)
(***************************************************************************)
Reported(ch, path) == HasRecord(ch, path, "added") \/ HasRecord(ch, path, "updated")

\* Key k of the level q was inserted or holds another value than before.
Mutated(E, M, q, k) ==
    \/ ~HasKey(ValueAt(E, q), k)
    \/ ~PyEq(MapGet(ValueAt(E, q), k), MapGet(ValueAt(M, q), k))

CallLevels == MergedAt(call.E, call.T, call.owned)

C21_EveryMutationReported ==
    (call.pc = "done" /\ ~call.res.err) =>
        \A q \in CallLevels :
            \A i \in DOMAIN ValueAt(call.res.doc, q).ks :
                LET k == ValueAt(call.res.doc, q).ks[i]
                    path == DottedPath(q \o <<k>>)
                IN  (q \o <<k>>) \notin CallLevels =>
                        /\ Mutated(call.E, call.res.doc, q, k)
                              => Reported(call.res.ch, path)
                        /\ HasRecord(call.res.ch, path, "preserved")
                              => ~Mutated(call.E, call.res.doc, q, k)

(***************************************************************************)
(* C22  The pages include is added at most once: a run of create_gitlab_ci  *)
(* that follows an earlier run leaves .gitlab-ci.yml unchanged.             *)
(***************************************************************************)
GitlabRun(i) == i \in DOMAIN repo.log /\ repo.log[i].op = "create_gitlab_ci"

C22_SecondRunLeavesCiUnchanged ==
    \A i, j \in DOMAIN repo.log :
        (i < j /\ GitlabRun(i) /\ GitlabRun(j))
            => repo.log[j].after.ci = repo.log[j].before.ci

\* The same for the initial states whose text loads as a mapping, and for a
\* missing and an empty file.
LoadsAsMapping(f) ==
    \/ ~f.exists
    \/ f.ev = <<>>
    \/ GitLabCIConfigLoad(f).what = "config"

SecondRunUnchangedForMappings ==
    \A i, j \in DOMAIN repo.log :
        (i < j /\ GitlabRun(i) /\ GitlabRun(j) /\ LoadsAsMapping(repo.log[1].before.ci))
            => repo.log[j].after.ci = repo.log[j].before.ci

(***************************************************************************)
(* C27  User-edited files are never overwritten by setup: a step leaves     *)
(* docs/index.md, docs/install.md and the pages workflow file as they were  *)
(* when they existed before the step, so a file that existed before the     *)
(* first step holds its first content after any number of steps.            *)
(***************************************************************************)
Kept(b, a) ==
    /\ b.pages.exists => a.pages = b.pages
    /\ b.index.exists => a.index = b.index
    /\ b.install.exists => a.install = b.install

RECURSIVE Split(_, _)
\* The segments of a dotted path; cur is the segment being read.
Split(chars, cur) ==
    IF chars = <<>> THEN <<cur>>
    ELSE IF Head(chars) = "." THEN <<cur>> \o Split(Tail(chars), <<>>)
    ELSE Split(Tail(chars), Append(cur, Head(chars)))

OwnedBySegments(path, owned) ==
    \E o \in owned : LET a == Split(o, <<>>)
                         b == Split(path, <<>>)
                     IN  Len(a) <= Len(b) /\ SubSeq(b, 1, Len(a)) = a

C23_OwnershipBoundaries ==
    (call.pc = "done" /\ ~call.res.err) =>
        \A q \in CallLevels :
            \A i \in DOMAIN ValueAt(call.T, q).ks :
                LET k == ValueAt(call.T, q).ks[i]
                    tv == ValueAt(call.T, q).vs[i]
                    ev == MapGet(ValueAt(call.E, q), k)
                    mv == MapGet(ValueAt(call.res.doc, q), k)
                    path == DottedPath(q \o <<k>>)
                IN  /\ IsTemplateOwned(path, call.owned) <=> OwnedBySegments(path, call.owned)
                    /\ OwnedBySegments(path, call.owned) => PyEq(mv, tv)
                    /\ (~OwnedBySegments(path, call.owned) /\ ev.t # "null"
                            /\ ~(IsMap(ev) /\ IsMap(tv))) => mv = ev

\* theme.name is owned and took the template's value, theme.names kept the
\* user's value, and theme itself was merged key by key.
C23_Witness ==
    /\ call.pc = "done"
    /\ ~call.res.err
    /\ call.E = BoundaryE
    /\ call.T = BoundaryT
    /\ call.owned = ScenarioOwned
    /\ <<K_theme>> \in CallLevels
    /\ ValueAt(call.res.doc, <<K_theme, K_name>>) = Str("material")
    /\ ValueAt(call.res.doc, <<K_theme, K_names>>) = Str("u")

(***************************************************************************)
(* C24  Guard boundary.  The merge call for the mappings at q levels below  *)
(* the root is made with the depth of the first call plus q, and it raises  *)
(* the structural error exactly when that depth is greater than max_depth:  *)
(* the merge fails if and only if one of its calls has a depth greater than *)
(* max_depth, and a first call with depth > max_depth fails whatever the    *)
(* documents hold.                                                          *)
(***************************************************************************)
CallDepth(q) == call.depth + Len(q)

C24_GuardBoundary ==
    call.pc = "done" =>
        /\ call.res.err <=> \E q \in CallLevels : CallDepth(q) > call.maxDepth
        /\ call.depth > call.maxDepth => call.res = MergeError

\* A merge whose deepest call runs exactly at the limit and succeeds, after
\* a recursion.
C24_Witness ==
    /\ call.pc = "done"
    /\ ~call.res.err
    /\ call.res.ch # <<>>
    /\ \E q \in CallLevels : Len(q) >= 1 /\ CallDepth(q) = call.maxDepth

(***************************************************************************)
(* C25  Resolved indentation profile.  From the detector's raw (indent,     *)
(* block_seq_indent) the profile is (indent, indent, 0) when the offset is  *)
(* absent or 0 and (indent - offset, indent - offset, offset) when the      *)
(* offset is greater than 0; sequence_indent equals mapping_indent,         *)
(* mapping_indent is at least 1, and the profile is (2, 2, 0) when nothing  *)
(* is detected.                                                             *)
(***************************************************************************)
RawGuess == load_yaml_guess_indent(layout.lines)

C25_ResolvedProfile ==
    layout.pc = "done" =>
        LET indent == RawGuess.indent
            offset == RawGuess.block_seq_indent
            p == layout.applied
        IN  /\ (indent # None /\ (offset = None \/ offset = 0))
                  => p = Profile(indent, indent, 0)
            /\ (indent # None /\ offset # None /\ offset > 0)
                  => p = Profile(indent - offset, indent - offset, offset)
            /\ (indent = None /\ offset = None) => p = default_indent
            /\ p.sequence = p.mapping
            /\ p.mapping >= 1

\* The same without the texts whose first dash stands left of the last
\* key-only line.
DashLeftOfKey == RawGuess.block_seq_indent # None /\ RawGuess.block_seq_indent < 0

ResolvedProfileForDashNotLeft ==
    (layout.pc = "done" /\ ~DashLeftOfKey) => C25_ResolvedProfile

(***************************************************************************)
(* C26  The merge only grows a mapping and keeps its order: after a merge   *)
(* the keys of the top-level mapping are the keys it had, in the order they *)
(* had, followed by the template's keys it did not have, in template order; *)
(* so its key set is keys(E) union keys(T).  The same holds for the         *)
(* mappings of every merged level.                                          *)
(***************************************************************************)
NewKeys(e, t) == SelectSeq(t.ks, LAMBDA k : ~HasKey(e, k))

GrownInOrder(e, t, m) == m.ks = e.ks \o NewKeys(e, t)

C26_KeysGrowInOrder ==
    (call.pc = "done" /\ ~call.res.err) =>
        /\ GrownInOrder(call.E, call.T, call.res.doc)
        /\ {call.res.doc.ks[i] : i \in DOMAIN call.res.doc.ks}
              = {call.E.ks[i] : i \in DOMAIN call.E.ks}
                    \cup {call.T.ks[i] : i \in DOMAIN call.T.ks}
        /\ \A q \in CallLevels :
              GrownInOrder(ValueAt(call.E, q), ValueAt(call.T, q), ValueAt(call.res.doc, q))

\* A merge that brought two keys to a mapping of three.
C26_Witness ==
    /\ call.pc = "done"
    /\ ~call.res.err
    /\ Len(call.E.ks) >= 3
    /\ Len(NewKeys(call.E, call.T)) >= 2
    /\ \E i \in DOMAIN call.T.ks : HasKey(call.E, call.T.ks[i])

(***************************************************************************)
(* C28  update_gitignore is append-only and idempotent: the content before  *)
(* a call is a prefix of the content after it, an entry that was present    *)
(* as a line, with or without its leading slash, is on no more lines after  *)
(* the call than before, and a call that repeats the provider and the flag  *)
(* of the call before it leaves the file unchanged.                         *)
(***************************************************************************)
IsPrefix(a, b) == Len(a) <= Len(b) /\ SubSeq(b, 1, Len(a)) = a

\* The number of lines that spell the entry, with or without leading slash.
Spelled(entry, f) ==
    LET ls == SplitLines(f.content)
    IN  Cardinality({i \in DOMAIN ls : Strip(ls[i]) \in {entry, LStrip(entry, "/"),
                                                       <<"/">> \o LStrip(entry, "/")}})

GitignoreEntries == {E_site, E_public, E_mkdocs_cache, E_generated}

C28_AppendOnlyIdempotent ==
    \A i \in DOMAIN gitignore.log :
        LET c == gitignore.log[i]
        IN  /\ IsPrefix(c.before.content, c.after.content)
            /\ \A e \in GitignoreEntries :
                  Spelled(e, c.before) > 0 => Spelled(e, c.after) = Spelled(e, c.before)
            /\ (i > 1 /\ gitignore.log[i - 1].provider = c.provider
                      /\ gitignore.log[i - 1].include_generated = c.include_generated)
                  => c.after = c.before

\* A first call that found the build directory without its leading slash
\* and added the cache directory, and a second call with the same arguments.
C28_Witness ==
    /\ Len(gitignore.log) = 2
    /\ gitignore.log[1].provider = gitignore.log[2].provider
    /\ gitignore.log[1].include_generated = gitignore.log[2].include_generated
    /\ gitignore.log[1].before.exists
    /\ <<"site", "/">> \in {SplitLines(gitignore.log[1].before.content)[i] :
                               i \in DOMAIN SplitLines(gitignore.log[1].before.content)}
    /\ Spelled(E_site, gitignore.log[1].before) = 1
    /\ Spelled(E_mkdocs_cache, gitignore.log[1].before) = 0
    /\ Spelled(E_mkdocs_cache, gitignore.log[1].after) = 1
    /\ gitignore.log[1].provider = "github"

(***************************************************************************)
(* C29  The two merge implementations agree: on the same existing document, *)
(* template and owned set, _merge_yaml_configs and _merge_yaml_in_place     *)
(* fail together, and otherwise produce the same key-to-value content and   *)
(* the same sequence of change records.                                     *)
(***************************************************************************)
C29_ImplementationsAgree ==
    call.pc = "done" =>
        /\ call.cli.err = call.res.err
        /\ PyEq(call.cli.doc, call.res.doc)
        /\ call.cli.ch = call.res.ch

\* The records with the new_value of every `added` record left out.
WithoutAddedValue(ch) ==
    [i \in DOMAIN ch |-> IF ch[i].action = "added"
                         THEN [ch[i] EXCEPT !.new_value = NoneStr] ELSE ch[i]]

\* The two agree on the content and, up to the new_value of `added`
\* records, on the records; an `added` new_value differs only as "None"
\* against "".
ImplementationsAgreeUpToAddedNull ==
    call.pc = "done" =>
        /\ call.cli.err = call.res.err
        /\ PyEq(call.cli.doc, call.res.doc)
        /\ WithoutAddedValue(call.cli.ch) = WithoutAddedValue(call.res.ch)
        /\ \A i \in DOMAIN call.res.ch :
              call.cli.ch[i] # call.res.ch[i]
                  => /\ call.cli.ch[i].new_value = SomeStr("None")
                     /\ call.res.ch[i].new_value = SomeStr("")

(***************************************************************************)
(* C30  Change records are well-formed: every record of a merge has action  *)
(* added, updated or preserved; an `added` record has no old_value and a    *)
(* new_value, a `preserved` record has an old_value and no new_value, and   *)
(* an `updated` record has both.                                            *)
(***************************************************************************)
WellFormed(c) ==
    CASE c.action = "added" -> c.old_value.none /\ ~c.new_value.none
      [] c.action = "updated" -> ~c.old_value.none /\ ~c.new_value.none
      [] c.action = "preserved" -> ~c.old_value.none /\ c.new_value.none
      [] OTHER -> FALSE

C30_RecordsWellFormed ==
    call.pc = "done" => \A i \in DOMAIN call.res.ch : WellFormed(call.res.ch[i])

\* A change list with the three actions, an `added` record for a null
\* template value among them.
C30_Witness ==
    /\ call.pc = "done"
    /\ ~call.res.err
    /\ \E i \in DOMAIN call.res.ch : call.res.ch[i].action = "updated"
    /\ \E i \in DOMAIN call.res.ch : call.res.ch[i].action = "preserved"
    /\ \E i \in DOMAIN call.res.ch : /\ call.res.ch[i].action = "added"
                                     /\ call.res.ch[i].new_value = SomeStr("")

====
